---- MODULE Spec2Model ----
(***************************************************************************)
(* whealthy: the wealth projector (src/lib/simulation.ts) and its tax      *)
(* engine (src/lib/tax.ts).                                                *)
(*                                                                         *)
(* The program computes on JavaScript numbers; the model computes on the   *)
(* exact values they stand for, so every sum, product and comparison of    *)
(* the code is computed as the code writes it, without rounding.           *)
(***************************************************************************)
EXTENDS Integers, Sequences, FiniteSets, TLC

VARIABLES
  params,         \* the Params record handed to the engine
  pc,             \* position inside simulateDeterministic
  yearIndex,      \* loop counter of the year loop
  wealth,         \* let wealth
  liquidWealth,   \* let liquidWealth
  lastYearSpend,  \* let lastYearSpend
  liquidTaxes,    \* const liquidTaxes of the last loop iteration
  rows,           \* const rows: SimulationRow[]
  brokeYear,      \* result.brokeYear
  taxArgs,        \* the non-params arguments of a tax-engine call
  taxPc,          \* position of the caller of the tax engine
  taxOut,         \* results of the tax-engine calls made so far
  schedArgs,      \* the arguments of a generatePrivateSchedules call
  schedPc,        \* position of the caller of generatePrivateSchedules
  schedOut,       \* the PrivateSchedule it returned
  mcPc,           \* position inside simulateMonteCarlo
  pathIdx,        \* loop counter of the path loop
  paths,          \* const paths: number[][]
  rowCounts,      \* result.rows.length of each path, in order
  yearIdx,        \* loop counter of the band loop
  bands,          \* const bands: MonteCarloBands
  ruinProbability, \* the returned ruinProbability, <<ruinCount, numPaths>>
  revPc,          \* position inside calculateReverse
  low,            \* let low
  high,           \* let high
  bestGuess,      \* let bestGuess
  bestResult,     \* let bestResult
  iter,           \* loop counter of the binary search
  runs,           \* the guesses handed to simulateDeterministic so far, in order
  reverseResult,  \* the ReverseCalculationResult returned
  payload,        \* the argument of importFromJson
  impPc,          \* position inside importFromJson
  importResult,   \* what importFromJson returned
  callArgs,       \* the arguments of a call of a helper of simulation.ts
  callPc,         \* position of the caller of the helper
  callOut,        \* what the helper returned
  pagePc,         \* life of the store and of PlannerPage: created, ready, mounted
  version,        \* how many params objects the store has set: the identity of params
  opCount,        \* how many store operations have been called
  lastOp,         \* the last store operation, the params before it and its result
  debounced,      \* useDebouncedValue: the state `debounced`
  timers,         \* the pending window.setTimeout handles of useDebouncedValue
  sinceChange,    \* milliseconds since params last changed, up to the delay
  simInput,       \* the last run of PlannerPage's effect that calls the engine
  handed,         \* the versions of params handed to the engine so far
  replacedEarly   \* the versions of params replaced before the delay had passed

vars == <<params, pc, yearIndex, wealth, liquidWealth, lastYearSpend,
          liquidTaxes, rows, brokeYear, taxArgs, taxPc, taxOut,
          schedArgs, schedPc, schedOut,
          mcPc, pathIdx, paths, rowCounts, yearIdx, bands, ruinProbability,
          revPc, low, high, bestGuess, bestResult, iter, runs, reverseResult,
          payload, impPc, importResult, callArgs, callPc, callOut,
          pagePc, version, opCount, lastOp, debounced, timers, sinceChange,
          simInput, handed, replacedEarly>>

simVars == <<pc, yearIndex, wealth, liquidWealth, lastYearSpend,
             liquidTaxes, rows, brokeYear>>

taxVars == <<taxArgs, taxPc, taxOut>>

schedVars == <<schedArgs, schedPc, schedOut>>

mcVars == <<mcPc, pathIdx, paths, rowCounts, yearIdx, bands, ruinProbability>>

revVars == <<revPc, low, high, bestGuess, bestResult, iter, runs, reverseResult>>

impVars == <<payload, impPc, importResult>>

callVars == <<callArgs, callPc, callOut>>

pageVars == <<pagePc, version, opCount, lastOp, debounced, timers, sinceChange,
              simInput, handed, replacedEarly>>

\* what a run of simulateDeterministic, and what a tax-engine call, leaves alone
nonSimVars == <<taxVars, schedVars, mcVars, revVars, impVars, callVars, pageVars>>

nonTaxVars == <<simVars, schedVars, mcVars, revVars, impVars, callVars, pageVars>>

nonSchedVars == <<params, simVars, taxVars, mcVars, revVars, impVars, callVars, pageVars>>

nonMcVars == <<simVars, taxVars, schedVars, revVars, impVars, callVars, pageVars>>

nonRevVars == <<simVars, taxVars, schedVars, mcVars, impVars, callVars, pageVars>>

nonImpVars == <<simVars, taxVars, schedVars, mcVars, revVars, callVars, pageVars>>

nonCallVars == <<params, simVars, taxVars, schedVars, mcVars, revVars, impVars, pageVars>>

nonPageVars == <<simVars, taxVars, schedVars, mcVars, revVars, impVars, callVars>>

----------------------------------------------------------------------------
(* Numbers.  A JavaScript number is modelled by the exact value it stands  *)
(* for: <<sign, k, mag>> is sign * mag / B^k, with mag a little-endian     *)
(* sequence of limbs in 0..B-1.  B = 2^3 * 3^3 * 5^3, so halves, thirds,   *)
(* fifths and the decimal rates of the program are all exact.  The form is *)
(* canonical: no high zero limb, no low zero limb while k > 0, and zero is *)
(* <<0, 0, <<>>>>; equal values are equal tuples.                          *)

B == 30 * 30 * 30

Abs(n) == IF n < 0 THEN -n ELSE n

Sgn(n) == IF n < 0 THEN -1 ELSE IF n = 0 THEN 0 ELSE 1

RECURSIVE MagOfInt(_)
MagOfInt(n) == IF n = 0 THEN <<>> ELSE <<n % B>> \o MagOfInt(n \div B)

RECURSIVE StripHigh(_)
StripHigh(m) ==
  IF m = <<>> THEN m
  ELSE IF m[Len(m)] = 0 THEN StripHigh(SubSeq(m, 1, Len(m) - 1)) ELSE m

Limb(m, j) == IF j >= 1 /\ j <= Len(m) THEN m[j] ELSE 0

RECURSIVE MagAddFrom(_, _, _, _)
MagAddFrom(a, b, j, carry) ==
  IF j > Len(a) /\ j > Len(b)
  THEN IF carry = 0 THEN <<>> ELSE <<carry>>
  ELSE LET s == Limb(a, j) + Limb(b, j) + carry
       IN  <<s % B>> \o MagAddFrom(a, b, j + 1, s \div B)

MagAdd(a, b) == MagAddFrom(a, b, 1, 0)

\* a - b for a >= b
RECURSIVE MagSubFrom(_, _, _, _)
MagSubFrom(a, b, j, borrow) ==
  IF j > Len(a) THEN <<>>
  ELSE LET s == Limb(a, j) - Limb(b, j) - borrow
       IN  IF s < 0 THEN <<s + B>> \o MagSubFrom(a, b, j + 1, 1)
           ELSE <<s>> \o MagSubFrom(a, b, j + 1, 0)

MagSub(a, b) == StripHigh(MagSubFrom(a, b, 1, 0))

\* -1, 0, 1 as a < b, a = b, a > b
RECURSIVE MagCmpFrom(_, _, _)
MagCmpFrom(a, b, j) ==
  IF j = 0 THEN 0
  ELSE IF a[j] < b[j] THEN -1
  ELSE IF a[j] > b[j] THEN 1
  ELSE MagCmpFrom(a, b, j - 1)

MagCmp(a, b) ==
  IF Len(a) < Len(b) THEN -1
  ELSE IF Len(a) > Len(b) THEN 1
  ELSE MagCmpFrom(a, b, Len(a))

RECURSIVE MagMulLimbFrom(_, _, _, _)
MagMulLimbFrom(a, m, j, carry) ==
  IF j > Len(a)
  THEN IF carry = 0 THEN <<>> ELSE <<carry>>
  ELSE LET s == a[j] * m + carry
       IN  <<s % B>> \o MagMulLimbFrom(a, m, j + 1, s \div B)

RECURSIVE MagMulFrom(_, _, _)
MagMulFrom(a, b, j) ==
  IF j > Len(b) THEN <<>>
  ELSE LET rest == MagMulFrom(a, b, j + 1)
       IN  MagAdd(IF b[j] = 0 THEN <<>> ELSE MagMulLimbFrom(a, b[j], 1, 0),
                  IF rest = <<>> THEN <<>> ELSE <<0>> \o rest)

MagMul(a, b) == MagMulFrom(a, b, 1)

RECURSIVE Zeros(_)
Zeros(n) == IF n <= 0 THEN <<>> ELSE <<0>> \o Zeros(n - 1)

RECURSIVE Canon(_, _, _)
Canon(s, k, m) ==
  IF m = <<>> THEN <<0, 0, <<>>>>
  ELSE IF k > 0 /\ m[1] = 0 THEN Canon(s, k - 1, Tail(m))
  ELSE <<s, k, m>>

\* the number of an integer
R(n) == <<Sgn(n), 0, MagOfInt(Abs(n))>>

Zero == R(0)

One == R(1)

\* a * b
RMul(a, b) ==
  IF a[1] = 0 \/ b[1] = 0 THEN Zero
  ELSE Canon(a[1] * b[1], a[2] + b[2], MagMul(a[3], b[3]))

\* the magnitude of a at scale k >= a[2]
Lift(a, k) == IF a[1] = 0 THEN <<>> ELSE Zeros(k - a[2]) \o a[3]

\* a + b
RAdd(a, b) ==
  LET k == IF a[2] > b[2] THEN a[2] ELSE b[2]
      ma == Lift(a, k)
      mb == Lift(b, k)
      c == MagCmp(ma, mb)
  IN  IF a[1] = 0 THEN b
      ELSE IF b[1] = 0 THEN a
      ELSE IF a[1] = b[1] THEN Canon(a[1], k, MagAdd(ma, mb))
      ELSE IF c = 0 THEN Zero
      ELSE IF c > 0 THEN Canon(a[1], k, MagSub(ma, mb))
      ELSE Canon(b[1], k, MagSub(mb, ma))

RNeg(a) == <<-a[1], a[2], a[3]>>

\* a - b
RSub(a, b) == RAdd(a, RNeg(b))

\* the sign of a - b
RCmp(a, b) == RSub(a, b)[1]

RLe(a, b) == RCmp(a, b) <= 0

RLt(a, b) == RCmp(a, b) < 0

RGe(a, b) == RCmp(a, b) >= 0

RGt(a, b) == RCmp(a, b) > 0

\* 1/d for an integer d > 0 dividing B^2; any other d has no value here
Inv(d) ==
  IF (B * B) % d = 0 THEN Canon(1, 2, MagOfInt((B * B) \div d))
  ELSE CHOOSE x \in {} : TRUE

\* the decimal literal n/d
Q(n, d) == RMul(R(n), Inv(d))

Half == Q(1, 2)

\* a / b for b # 0 whose magnitude is an integer dividing B^2
RDiv(a, b) ==
  LET m == IF Len(b[3]) = 1 THEN b[3][1]
           ELSE IF Len(b[3]) = 2 THEN b[3][1] + B * b[3][2]
           ELSE CHOOSE x \in {} : TRUE
      r == Inv(m)
      recip == IF b[2] <= r[2] THEN <<b[1], r[2] - b[2], r[3]>>
               ELSE <<b[1], 0, Zeros(b[2] - r[2]) \o r[3]>>
  IN  RMul(a, recip)

\* Math.max, Math.min, Math.abs
RMax(a, b) == IF RLe(a, b) THEN b ELSE a

RMin(a, b) == IF RLe(a, b) THEN a ELSE b

RAbs(a) == <<Abs(a[1]), a[2], a[3]>>

\* Math.pow(a, k) for an integer k >= 0
RECURSIVE RPow(_, _)
RPow(a, k) == IF k = 0 THEN One ELSE RMul(a, RPow(a, k - 1))

\* a quotient a / b (b > 0) kept as the pair of its terms
Ratio(a, b) == <<a, b>>

\* a/b <= x and a/b >= x for a quotient <<a, b>>
RatioLe(q, x) == RLe(q[1], RMul(x, q[2]))

RatioGe(q, x) == RGe(q[1], RMul(x, q[2]))

----------------------------------------------------------------------------
(* src/lib/tax.ts                                                          *)

GERMAN_CORPORATE_TAX_RATE == Q(3, 20)

GERMAN_SOLIDARITY_SURCHARGE == Q(11, 200)

GERMAN_DIVIDEND_EXEMPTION_RATE == Q(19, 20)

GERMAN_MIN_OWNERSHIP_FOR_EXEMPTION == Q(1, 10)

GERMAN_MIN_OWNERSHIP_FOR_TRADE_TAX_EXEMPTION == Q(3, 20)

US_DIVIDEND_WITHHOLDING_STANDARD == Q(3, 10)

US_DIVIDEND_WITHHOLDING_TREATY_10PCT == Q(1, 20)

US_DIVIDEND_WITHHOLDING_TREATY_80PCT == Q(0, 1)

US_MIN_OWNERSHIP_FOR_5PCT == Q(1, 10)

US_MIN_OWNERSHIP_FOR_0PCT == Q(4, 5)

calculateGermanCorporateTaxRate(tradeTaxRate, isVermoegensverwaltend) ==
  LET corporateTax == GERMAN_CORPORATE_TAX_RATE
      solidaritySurcharge == RMul(GERMAN_CORPORATE_TAX_RATE, GERMAN_SOLIDARITY_SURCHARGE)
      tradeTax == IF isVermoegensverwaltend THEN Zero ELSE tradeTaxRate
  IN  RAdd(RAdd(corporateTax, solidaritySurcharge), tradeTax)

calculateUSDividendWithholdingTax(ownershipPct) ==
  IF RGe(ownershipPct, US_MIN_OWNERSHIP_FOR_0PCT)
  THEN US_DIVIDEND_WITHHOLDING_TREATY_80PCT
  ELSE IF RGe(ownershipPct, US_MIN_OWNERSHIP_FOR_5PCT)
       THEN US_DIVIDEND_WITHHOLDING_TREATY_10PCT
       ELSE US_DIVIDEND_WITHHOLDING_STANDARD

\* calculateGermanDividendTax with the exemption granted only above 10%
calculateGermanDividendTaxAbove(dividendAmount, ownershipPct, tradeTaxRate, isVermoegensverwaltend) ==
  LET qualifiesForExemption == RGt(ownershipPct, GERMAN_MIN_OWNERSHIP_FOR_EXEMPTION)
      qualifiesForTradeTaxExemption ==
        RGe(ownershipPct, GERMAN_MIN_OWNERSHIP_FOR_TRADE_TAX_EXEMPTION)
      taxableDividend == RMul(dividendAmount, RSub(One, GERMAN_DIVIDEND_EXEMPTION_RATE))
      corporateTax == RMul(taxableDividend, GERMAN_CORPORATE_TAX_RATE)
      solidaritySurcharge == RMul(corporateTax, GERMAN_SOLIDARITY_SURCHARGE)
      tradeTax ==
        IF ~isVermoegensverwaltend
        THEN IF qualifiesForTradeTaxExemption
             THEN RMul(taxableDividend, tradeTaxRate)
             ELSE RMul(dividendAmount, tradeTaxRate)
        ELSE Zero
  IN  IF ~qualifiesForExemption
      THEN RMul(dividendAmount,
                calculateGermanCorporateTaxRate(tradeTaxRate, isVermoegensverwaltend))
      ELSE RAdd(RAdd(corporateTax, solidaritySurcharge), tradeTax)

calculateGermanDividendTax(dividendAmount, ownershipPct, tradeTaxRate, isVermoegensverwaltend) ==
  LET qualifiesForExemption == RGe(ownershipPct, GERMAN_MIN_OWNERSHIP_FOR_EXEMPTION)
      qualifiesForTradeTaxExemption ==
        RGe(ownershipPct, GERMAN_MIN_OWNERSHIP_FOR_TRADE_TAX_EXEMPTION)
      taxableDividend == RMul(dividendAmount, RSub(One, GERMAN_DIVIDEND_EXEMPTION_RATE))
      corporateTax == RMul(taxableDividend, GERMAN_CORPORATE_TAX_RATE)
      solidaritySurcharge == RMul(corporateTax, GERMAN_SOLIDARITY_SURCHARGE)
      tradeTax ==
        IF ~isVermoegensverwaltend
        THEN IF qualifiesForTradeTaxExemption
             THEN RMul(taxableDividend, tradeTaxRate)
             ELSE RMul(dividendAmount, tradeTaxRate)
        ELSE Zero
  IN  IF ~qualifiesForExemption
      THEN RMul(dividendAmount,
                calculateGermanCorporateTaxRate(tradeTaxRate, isVermoegensverwaltend))
      ELSE RAdd(RAdd(corporateTax, solidaritySurcharge), tradeTax)

\* computeCustomTaxes returning the sum of its terms without the floor at 0
computeCustomTaxesUnfloored(p, baseForReturn, allocation, publicDivYield, publicRealized, cashReturn, privateRealized) ==
  LET publicBase == RMul(baseForReturn, allocation.public)
      cashBase == RMul(baseForReturn, allocation.cash)
      privateBase == RMul(baseForReturn, allocation.private)
      taxOnDiv == RMul(RMul(publicBase, publicDivYield), p.taxDividends)
      taxOnPublicRealized == RMul(RMul(publicBase, publicRealized), p.taxRealizedGains)
      taxOnCash == RMul(RMul(cashBase, cashReturn), p.taxInterest)
      taxOnPrivate == RMul(RMul(privateBase, privateRealized), p.taxRealizedGains)
  IN  RAdd(RAdd(RAdd(taxOnDiv, taxOnPublicRealized), taxOnCash), taxOnPrivate)

computeCustomTaxes(p, baseForReturn, allocation, publicDivYield, publicRealized, cashReturn, privateRealized) ==
  LET publicBase == RMul(baseForReturn, allocation.public)
      cashBase == RMul(baseForReturn, allocation.cash)
      privateBase == RMul(baseForReturn, allocation.private)
      taxOnDiv == RMul(RMul(publicBase, publicDivYield), p.taxDividends)
      taxOnPublicRealized == RMul(RMul(publicBase, publicRealized), p.taxRealizedGains)
      taxOnCash == RMul(RMul(cashBase, cashReturn), p.taxInterest)
      taxOnPrivate == RMul(RMul(privateBase, privateRealized), p.taxRealizedGains)
  IN  RMax(Zero, RAdd(RAdd(RAdd(taxOnDiv, taxOnPublicRealized), taxOnCash), taxOnPrivate))

\* computeHoldingCompanyTaxes returning totalTax without the floor at 0
computeHoldingCompanyTaxesUnfloored(p, baseForReturn, allocation, publicDivYield, publicRealized, cashReturn, privateRealized) ==
  LET publicBase == RMul(baseForReturn, allocation.public)
      cashBase == RMul(baseForReturn, allocation.cash)
      privateBase == RMul(baseForReturn, allocation.private)
      holding == p.holdingCompanyStructure
      publicDividendIncome == RMul(publicBase, publicDivYield)
      interestIncome == RMul(cashBase, cashReturn)
      publicRealizedGains == RMul(publicBase, publicRealized)
      privateRealizedGains == RMul(privateBase, privateRealized)
      publicDividendTax ==
        calculateGermanDividendTax(publicDividendIncome, holding.germanOwnershipPct,
                                   holding.germanTradeTaxRate, holding.isVermoegensverwaltend)
      effectiveGermanRate ==
        calculateGermanCorporateTaxRate(holding.germanTradeTaxRate,
                                        holding.isVermoegensverwaltend)
      interestTax == RMul(interestIncome, effectiveGermanRate)
      publicGainsTax == RMul(publicRealizedGains, effectiveGermanRate)
      privateGainsTax == RMul(privateRealizedGains, effectiveGermanRate)
      germanTax ==
        RAdd(RAdd(RAdd(publicDividendTax, interestTax), publicGainsTax), privateGainsTax)
      usWithholding ==
        RMul(publicDividendIncome,
             calculateUSDividendWithholdingTax(holding.usOwnershipPct))
      allIncome ==
        RAdd(RAdd(RAdd(publicDividendIncome, interestIncome), publicRealizedGains),
             privateRealizedGains)
      totalTax ==
        IF p.taxJurisdiction = "germany" \/ p.taxJurisdiction = "germany-us"
        THEN IF p.taxJurisdiction = "germany-us" /\ holding.publicDividendSource = "us"
             THEN RAdd(germanTax, usWithholding)
             ELSE germanTax
        ELSE IF p.taxJurisdiction = "us"
             THEN RMul(allIncome, holding.usCorporateTaxRate)
             ELSE Zero
  IN  IF p.taxJurisdiction = "custom"
      THEN computeCustomTaxes(p, baseForReturn, allocation, publicDivYield,
                              publicRealized, cashReturn, privateRealized)
      ELSE totalTax

computeHoldingCompanyTaxes(p, baseForReturn, allocation, publicDivYield, publicRealized, cashReturn, privateRealized) ==
  LET publicBase == RMul(baseForReturn, allocation.public)
      cashBase == RMul(baseForReturn, allocation.cash)
      privateBase == RMul(baseForReturn, allocation.private)
      holding == p.holdingCompanyStructure
      publicDividendIncome == RMul(publicBase, publicDivYield)
      interestIncome == RMul(cashBase, cashReturn)
      publicRealizedGains == RMul(publicBase, publicRealized)
      privateRealizedGains == RMul(privateBase, privateRealized)
      publicDividendTax ==
        calculateGermanDividendTax(publicDividendIncome, holding.germanOwnershipPct,
                                   holding.germanTradeTaxRate, holding.isVermoegensverwaltend)
      effectiveGermanRate ==
        calculateGermanCorporateTaxRate(holding.germanTradeTaxRate,
                                        holding.isVermoegensverwaltend)
      interestTax == RMul(interestIncome, effectiveGermanRate)
      publicGainsTax == RMul(publicRealizedGains, effectiveGermanRate)
      privateGainsTax == RMul(privateRealizedGains, effectiveGermanRate)
      germanTax ==
        RAdd(RAdd(RAdd(publicDividendTax, interestTax), publicGainsTax), privateGainsTax)
      usWithholding ==
        RMul(publicDividendIncome,
             calculateUSDividendWithholdingTax(holding.usOwnershipPct))
      allIncome ==
        RAdd(RAdd(RAdd(publicDividendIncome, interestIncome), publicRealizedGains),
             privateRealizedGains)
      totalTax ==
        IF p.taxJurisdiction = "germany" \/ p.taxJurisdiction = "germany-us"
        THEN IF p.taxJurisdiction = "germany-us" /\ holding.publicDividendSource = "us"
             THEN RAdd(germanTax, usWithholding)
             ELSE germanTax
        ELSE IF p.taxJurisdiction = "us"
             THEN RMul(allIncome, holding.usCorporateTaxRate)
             ELSE Zero
  IN  IF p.taxJurisdiction = "custom"
      THEN computeCustomTaxes(p, baseForReturn, allocation, publicDivYield,
                              publicRealized, cashReturn, privateRealized)
      ELSE RMax(Zero, totalTax)

\* computeLiquidCustomTaxes leaving out the tax on interest
computeLiquidCustomTaxesNoInterest(p, baseForReturn, allocation, publicDivYield, publicRealized, cashReturn) ==
  LET publicBase == RMul(baseForReturn, allocation.public)
      taxOnDiv == RMul(RMul(publicBase, publicDivYield), p.taxDividends)
      taxOnPublicRealized == RMul(RMul(publicBase, publicRealized), p.taxRealizedGains)
  IN  RMax(Zero, RAdd(taxOnDiv, taxOnPublicRealized))

computeLiquidCustomTaxes(p, baseForReturn, allocation, publicDivYield, publicRealized, cashReturn) ==
  LET publicBase == RMul(baseForReturn, allocation.public)
      cashBase == RMul(baseForReturn, allocation.cash)
      taxOnDiv == RMul(RMul(publicBase, publicDivYield), p.taxDividends)
      taxOnPublicRealized == RMul(RMul(publicBase, publicRealized), p.taxRealizedGains)
      taxOnCash == RMul(RMul(cashBase, cashReturn), p.taxInterest)
  IN  RMax(Zero, RAdd(RAdd(taxOnDiv, taxOnPublicRealized), taxOnCash))

computeLiquidHoldingCompanyTaxes(p, baseForReturn, allocation, publicDivYield, publicRealized, cashReturn) ==
  LET publicBase == RMul(baseForReturn, allocation.public)
      cashBase == RMul(baseForReturn, allocation.cash)
      holding == p.holdingCompanyStructure
      publicDividendIncome == RMul(publicBase, publicDivYield)
      interestIncome == RMul(cashBase, cashReturn)
      publicRealizedGains == RMul(publicBase, publicRealized)
      publicDividendTax ==
        calculateGermanDividendTax(publicDividendIncome, holding.germanOwnershipPct,
                                   holding.germanTradeTaxRate, holding.isVermoegensverwaltend)
      effectiveGermanRate ==
        calculateGermanCorporateTaxRate(holding.germanTradeTaxRate,
                                        holding.isVermoegensverwaltend)
      interestTax == RMul(interestIncome, effectiveGermanRate)
      publicGainsTax == RMul(publicRealizedGains, effectiveGermanRate)
      germanTax == RAdd(RAdd(publicDividendTax, interestTax), publicGainsTax)
      usWithholding ==
        RMul(publicDividendIncome,
             calculateUSDividendWithholdingTax(holding.usOwnershipPct))
      allIncome == RAdd(RAdd(publicDividendIncome, interestIncome), publicRealizedGains)
      totalTax ==
        IF p.taxJurisdiction = "germany" \/ p.taxJurisdiction = "germany-us"
        THEN IF p.taxJurisdiction = "germany-us" /\ holding.publicDividendSource = "us"
             THEN RAdd(germanTax, usWithholding)
             ELSE germanTax
        ELSE IF p.taxJurisdiction = "us"
             THEN RMul(allIncome, holding.usCorporateTaxRate)
             ELSE Zero
  IN  IF p.taxJurisdiction = "custom"
      THEN computeLiquidCustomTaxes(p, baseForReturn, allocation, publicDivYield,
                                    publicRealized, cashReturn)
      ELSE RMax(Zero, totalTax)

----------------------------------------------------------------------------
(* src/lib/simulation.ts                                                   *)

IMax(a, b) == IF a >= b THEN a ELSE b

IMin(a, b) == IF a <= b THEN a ELSE b

\* clamp without the upper bound
clampBelowOnly(value, min, max) == RMax(min, value)

clamp(value, min, max) == RMax(min, RMin(max, value))

normalizeAllocation(alloc) ==
  LET total == RAdd(RAdd(alloc.public, alloc.private), alloc.cash)
  IN  IF total = Zero THEN alloc
      ELSE [public |-> RDiv(alloc.public, total),
            private |-> RDiv(alloc.private, total),
            cash |-> RDiv(alloc.cash, total)]

\* A JavaScript array is the sequence of its elements, index i of the code at
\* position i + 1; Hole is an index below length that was never written.
Hole == <<2, 0, <<>>>>

\* Array(n).fill(0)
arrayFill(n) == [i \in 1..n |-> Zero]

\* arr[index] = value: a write at or past length grows the array
arraySet(arr, index, value) ==
  IF index < Len(arr) THEN [arr EXCEPT ![index + 1] = value]
  ELSE arr \o [i \in 1..(index - Len(arr)) |-> Hole] \o <<value>>

\* for (let y = from; y < to; y++) arr[y] = value
RECURSIVE arrayFillRange(_, _, _, _)
arrayFillRange(arr, from, to, value) ==
  IF from < to THEN arrayFillRange(arraySet(arr, from, value), from + 1, to, value)
  ELSE arr

\* generatePrivateSchedules calling capital for one year more
generatePrivateSchedulesExtraCall(privCommit, years) ==
  LET effectiveCallYears == IMin(privCommit.callYears, years + 1)
      callPerYear == RDiv(privCommit.totalCommitment, R(IMax(effectiveCallYears, 1)))
      totalCalled == RMul(callPerYear, R(effectiveCallYears))
      totalReturn == RMul(totalCalled, privCommit.distMultiple)
      distYears == IMax(1, IMin(privCommit.distYears, years + 1 - privCommit.distLagYears))
      distPerYear == RDiv(totalReturn, R(distYears))
      start == privCommit.distLagYears
      finalYear == IMin(start + distYears, years + 1)
  IN  IF ~privCommit.enabled \/ RLe(privCommit.totalCommitment, Zero)
      THEN [calls |-> arrayFill(years + 1), distributions |-> arrayFill(years + 1)]
      ELSE [calls |-> arrayFillRange(arrayFill(years + 1), 0, effectiveCallYears + 1, callPerYear),
            distributions |->
              arrayFillRange(arrayFill(years + 1), start, finalYear, distPerYear)]

\* generatePrivateSchedules dividing the commitment by callYears, not by the
\* call years inside the horizon
generatePrivateSchedulesPerCallYear(privCommit, years) ==
  LET effectiveCallYears == IMin(privCommit.callYears, years + 1)
      callPerYear == RDiv(privCommit.totalCommitment, R(privCommit.callYears))
      totalCalled == RMul(callPerYear, R(effectiveCallYears))
      totalReturn == RMul(totalCalled, privCommit.distMultiple)
      distYears == IMax(1, IMin(privCommit.distYears, years + 1 - privCommit.distLagYears))
      distPerYear == RDiv(totalReturn, R(distYears))
      start == privCommit.distLagYears
      finalYear == IMin(start + distYears, years + 1)
  IN  IF ~privCommit.enabled \/ RLe(privCommit.totalCommitment, Zero)
      THEN [calls |-> arrayFill(years + 1), distributions |-> arrayFill(years + 1)]
      ELSE [calls |-> arrayFillRange(arrayFill(years + 1), 0, effectiveCallYears, callPerYear),
            distributions |->
              arrayFillRange(arrayFill(years + 1), start, finalYear, distPerYear)]

\* generatePrivateSchedules without the clamp of the distribution years to the
\* horizon
generatePrivateSchedulesPastHorizon(privCommit, years) ==
  LET effectiveCallYears == IMin(privCommit.callYears, years + 1)
      callPerYear == RDiv(privCommit.totalCommitment, R(IMax(effectiveCallYears, 1)))
      totalCalled == RMul(callPerYear, R(effectiveCallYears))
      totalReturn == RMul(totalCalled, privCommit.distMultiple)
      distYears == IMax(1, privCommit.distYears)
      distPerYear == RDiv(totalReturn, R(distYears))
      start == privCommit.distLagYears
      finalYear == start + distYears
  IN  IF ~privCommit.enabled \/ RLe(privCommit.totalCommitment, Zero)
      THEN [calls |-> arrayFill(years + 1), distributions |-> arrayFill(years + 1)]
      ELSE [calls |-> arrayFillRange(arrayFill(years + 1), 0, effectiveCallYears, callPerYear),
            distributions |->
              arrayFillRange(arrayFill(years + 1), start, finalYear, distPerYear)]

\* generatePrivateSchedules dividing the return by distYears, not by the
\* distribution years inside the horizon
generatePrivateSchedulesPerDistYear(privCommit, years) ==
  LET effectiveCallYears == IMin(privCommit.callYears, years + 1)
      callPerYear == RDiv(privCommit.totalCommitment, R(IMax(effectiveCallYears, 1)))
      totalCalled == RMul(callPerYear, R(effectiveCallYears))
      totalReturn == RMul(totalCalled, privCommit.distMultiple)
      distYears == IMax(1, IMin(privCommit.distYears, years + 1 - privCommit.distLagYears))
      distPerYear == RDiv(totalReturn, R(privCommit.distYears))
      start == privCommit.distLagYears
      finalYear == IMin(start + distYears, years + 1)
  IN  IF ~privCommit.enabled \/ RLe(privCommit.totalCommitment, Zero)
      THEN [calls |-> arrayFill(years + 1), distributions |-> arrayFill(years + 1)]
      ELSE [calls |-> arrayFillRange(arrayFill(years + 1), 0, effectiveCallYears, callPerYear),
            distributions |->
              arrayFillRange(arrayFill(years + 1), start, finalYear, distPerYear)]

\* lines 47-75
generatePrivateSchedules(privCommit, years) ==
  LET effectiveCallYears == IMin(privCommit.callYears, years + 1)
      callPerYear == RDiv(privCommit.totalCommitment, R(IMax(effectiveCallYears, 1)))
      totalCalled == RMul(callPerYear, R(effectiveCallYears))
      totalReturn == RMul(totalCalled, privCommit.distMultiple)
      distYears == IMax(1, IMin(privCommit.distYears, years + 1 - privCommit.distLagYears))
      distPerYear == RDiv(totalReturn, R(distYears))
      start == privCommit.distLagYears
      finalYear == IMin(start + distYears, years + 1)
  IN  IF ~privCommit.enabled \/ RLe(privCommit.totalCommitment, Zero)
      THEN [calls |-> arrayFill(years + 1), distributions |-> arrayFill(years + 1)]
      ELSE [calls |-> arrayFillRange(arrayFill(years + 1), 0, effectiveCallYears, callPerYear),
            distributions |->
              arrayFillRange(arrayFill(years + 1), start, finalYear, distPerYear)]

computeSpending(p, w, y, lastSpend) ==
  LET inflation == IF p.realMode THEN Zero ELSE p.expenseInflation
      target == RMul(p.guardrails.targetPctWealth, w)
      minSpend == RMul(lastSpend, RAdd(RAdd(One, inflation), p.guardrails.minChange))
      maxSpend == RMul(lastSpend, RAdd(RAdd(One, inflation), p.guardrails.maxChange))
  IN  IF p.spendingRule = "%wealth" THEN RMul(p.spendPctWealth, w)
      ELSE IF p.spendingRule = "guardrails"
           THEN clamp(target, RMin(minSpend, maxSpend), RMax(minSpend, maxSpend))
           ELSE RMul(p.annualExpenseNow, RPow(RAdd(One, inflation), y))

computePhilanthropy(p, w, y) ==
  LET inflation == IF p.realMode THEN Zero ELSE p.expenseInflation
  IN  IF p.philanthropyMode = "%wealth" THEN RMul(p.philanthropyPercent, w)
      ELSE RMul(p.philanthropyFixedNow, RPow(RAdd(One, inflation), y))

RECURSIVE sumInflows(_, _)
sumInflows(events, y) ==
  IF events = <<>> THEN Zero
  ELSE LET e == events[Len(events)]
           acc == sumInflows(SubSeq(events, 1, Len(events) - 1), y)
       IN  IF e.year = y /\ RGt(e.amount, Zero) THEN RAdd(acc, e.amount) ELSE acc

RECURSIVE sumOutflows(_, _)
sumOutflows(events, y) ==
  IF events = <<>> THEN Zero
  ELSE LET e == events[Len(events)]
           acc == sumOutflows(SubSeq(events, 1, Len(events) - 1), y)
       IN  IF e.year = y /\ RLt(e.amount, Zero) THEN RAdd(acc, RAbs(e.amount)) ELSE acc

\* sumOneOffs without the filter on event.year
sumOneOffsOfAnyYear(p, y) ==
  [inflows |-> sumInflows([i \in 1..Len(p.oneOffs) |-> [p.oneOffs[i] EXCEPT !.year = y]], y),
   outflows |-> sumOutflows([i \in 1..Len(p.oneOffs) |-> [p.oneOffs[i] EXCEPT !.year = y]], y)]

sumOneOffs(p, y) ==
  [inflows |-> sumInflows(p.oneOffs, y), outflows |-> sumOutflows(p.oneOffs, y)]

computeTaxes(p, baseForReturn, allocation, publicDivYield, publicRealized, cashReturn, privateRealized) ==
  computeHoldingCompanyTaxes(p, baseForReturn, allocation, publicDivYield,
                             publicRealized, cashReturn, privateRealized)

\* the liquid tax taken to be the full tax, private gains included
computeLiquidTaxesWithPrivate(p, baseForReturn, allocation, publicDivYield, publicRealized, cashReturn) ==
  computeTaxes(p, baseForReturn, allocation, publicDivYield, publicRealized, cashReturn,
               RMul(p.privateRealizationRate, RMax(Zero, p.assetReturn.private)))

computeLiquidTaxes(p, baseForReturn, allocation, publicDivYield, publicRealized, cashReturn) ==
  computeLiquidHoldingCompanyTaxes(p, baseForReturn, allocation, publicDivYield,
                                   publicRealized, cashReturn)

\* const years
horizon(p) == IMax(1, p.deathAge - p.currentAge)

\* The body of the year loop of simulateDeterministic, in the order of the
\* code, last step first: yearIteration and yearSchedule (lines 197-215) take
\* the year's spending, philanthropy, one-offs and private schedule entries,
\* yearFlows (217-218) the pre-tax flows, yearBase (220-223) the base for
\* returns, yearReturns (224-228) the realized returns, yearTaxes (230-254) the
\* gross return and the two tax amounts, yearRow (256-314) the new wealth, the
\* liquid ledger and the row.  Each hands its values to the next.

\* lines 256-314: wealth, the liquid ledger and the pushed row
yearRow(p, y, w, lw, expense, philanthropy, oneOffs, privateCall, allocation, totalOutflowsPreTax, totalInflowsPreTax, baseForReturn, publicPriceReturn, publicRealized, privateRealized, grossReturn, taxes, liqTaxes) ==
  LET publicReturn == p.assetReturn.public
      publicDivYield == p.publicDivYield
      cashReturn == p.assetReturn.cash
      privateReturn == p.assetReturn.private
      netReturn == RSub(RMul(baseForReturn, grossReturn), taxes)
      newWealth == RSub(RAdd(RAdd(w, totalInflowsPreTax), netReturn), totalOutflowsPreTax)
      publicBase == RMul(baseForReturn, allocation.public)
      cashBase == RMul(baseForReturn, allocation.cash)
      privateBase == RMul(baseForReturn, allocation.private)
      liquidBefore == lw
      liquidReturn ==
        RMul(baseForReturn,
             RAdd(RMul(allocation.public, publicReturn), RMul(allocation.cash, cashReturn)))
      liquidAfter ==
        RSub(RAdd(RSub(RSub(RSub(RSub(RAdd(liquidBefore, totalInflowsPreTax),
                                      privateCall),
                                 expense),
                            philanthropy),
                       oneOffs.outflows),
                  liquidReturn),
             liqTaxes)
      newLiquid == RMax(Zero, liquidAfter)
  IN  [row |->
         [year |-> y,
          age |-> p.currentAge + y,
          wealth |-> newWealth,
          liquidWealth |-> newLiquid,
          expense |-> expense,
          philanthropy |-> philanthropy,
          inflows |-> totalInflowsPreTax,
          outflows |-> totalOutflowsPreTax,
          taxes |-> taxes,
          netReturn |-> netReturn,
          liquidityYears |-> Ratio(newLiquid, RMax(One, RAdd(expense, philanthropy))),
          dividendIncome |-> RMul(publicBase, publicDivYield),
          interestIncome |-> RMul(cashBase, cashReturn),
          publicRealizedGains |-> RMul(publicBase, publicRealized),
          publicUnrealizedGains |->
            RMul(publicBase, RMax(Zero, RSub(publicPriceReturn, publicRealized))),
          privateRealizedGains |-> RMul(privateBase, privateRealized),
          privateUnrealizedGains |->
            RMul(privateBase, RMax(Zero, RSub(privateReturn, privateRealized))),
          grossReturnPct |-> IF RGt(baseForReturn, Zero) THEN grossReturn ELSE Zero,
          netReturnPct |-> IF RGt(baseForReturn, Zero)
                           THEN Ratio(netReturn, baseForReturn)
                           ELSE Ratio(Zero, One)],
       wealth |-> newWealth,
       liquidWealth |-> newLiquid,
       lastYearSpend |-> expense,
       liquidTaxes |-> liqTaxes]

\* lines 221-254: the returns of the year and the taxes on them
yearTaxes(p, y, w, lw, expense, philanthropy, oneOffs, privateCall, allocation, totalOutflowsPreTax, totalInflowsPreTax, baseForReturn, publicPriceReturn, publicRealized, privateRealized) ==
  yearRow(p, y, w, lw, expense, philanthropy, oneOffs, privateCall, allocation,
          totalOutflowsPreTax, totalInflowsPreTax, baseForReturn, publicPriceReturn,
          publicRealized, privateRealized,
          RAdd(RAdd(RMul(allocation.public, p.assetReturn.public),
                    RMul(allocation.private, p.assetReturn.private)),
               RMul(allocation.cash, p.assetReturn.cash)),
          computeTaxes(p, baseForReturn, allocation, p.publicDivYield, publicRealized,
                       p.assetReturn.cash, privateRealized),
          computeLiquidTaxes(p, baseForReturn, allocation, p.publicDivYield,
                             publicRealized, p.assetReturn.cash))

yearReturns(p, y, w, lw, expense, philanthropy, oneOffs, privateCall, allocation, totalOutflowsPreTax, totalInflowsPreTax, baseForReturn, publicPriceReturn) ==
  yearTaxes(p, y, w, lw, expense, philanthropy, oneOffs, privateCall, allocation,
            totalOutflowsPreTax, totalInflowsPreTax, baseForReturn, publicPriceReturn,
            RMul(p.publicRealizationRate, publicPriceReturn),
            RMul(p.privateRealizationRate, RMax(Zero, p.assetReturn.private)))

\* lines 217-220: the pre-tax flows and the base the returns are earned on
yearBase(p, y, w, lw, expense, philanthropy, oneOffs, privateCall, allocation, totalOutflowsPreTax, totalInflowsPreTax) ==
  yearReturns(p, y, w, lw, expense, philanthropy, oneOffs, privateCall, allocation,
              totalOutflowsPreTax, totalInflowsPreTax,
              RMax(Zero, RAdd(RSub(w, RMul(Half, totalOutflowsPreTax)),
                              RMul(Half, totalInflowsPreTax))),
              RMax(Zero, RSub(p.assetReturn.public, p.publicDivYield)))

\* the flows with the private call left out of the outflows
yearFlowsCallNotCounted(p, y, w, lw, expense, philanthropy, oneOffs, privateCall, privateDistribution, allocation) ==
  yearBase(p, y, w, lw, expense, philanthropy, oneOffs, privateCall, allocation,
           RAdd(RAdd(expense, philanthropy), oneOffs.outflows),
           RAdd(oneOffs.inflows, privateDistribution))

yearFlows(p, y, w, lw, expense, philanthropy, oneOffs, privateCall, privateDistribution, allocation) ==
  yearBase(p, y, w, lw, expense, philanthropy, oneOffs, privateCall, allocation,
           RAdd(RAdd(RAdd(expense, philanthropy), oneOffs.outflows), privateCall),
           RAdd(oneOffs.inflows, privateDistribution))

yearSchedule(p, y, w, lw, lastSpend, schedule) ==
  yearFlows(p, y, w, lw, computeSpending(p, w, y, lastSpend), computePhilanthropy(p, w, y),
            sumOneOffs(p, y), schedule.calls[y + 1], schedule.distributions[y + 1],
            normalizeAllocation(p.assetAlloc))

\* lines 209-318: one iteration of the year loop on the loop state
\* (w, lw, lastSpend): the row it pushes and the values it leaves behind
yearIteration(p, y, w, lw, lastSpend) ==
  yearSchedule(p, y, w, lw, lastSpend, generatePrivateSchedules(p.privCommit, horizon(p)))

\* rows.findIndex with the comparison row.wealth < 0
findBrokeIndexNegative(rs) ==
  LET hits == {i \in 1..Len(rs) : RLt(rs[i].wealth, Zero)}
  IN  IF hits = {} THEN -1
      ELSE (CHOOSE i \in hits : \A j \in hits : i <= j) - 1

\* rows.findIndex((row) => row.wealth <= 0)
findBrokeIndex(rs) ==
  LET hits == {i \in 1..Len(rs) : RLe(rs[i].wealth, Zero)}
  IN  IF hits = {} THEN -1
      ELSE (CHOOSE i \in hits : \A j \in hits : i <= j) - 1

\* simulateDeterministic as one value: the year loop run to its end.
\* loopStep is the tail of one iteration (rows.push, the break, the next
\* iteration); yearLoop is the loop head.
RECURSIVE yearLoop(_, _, _, _, _, _)

RECURSIVE loopStep(_, _, _, _)

loopStep(p, y, rs, it) ==
  IF RLe(it.wealth, Zero) THEN Append(rs, it.row)
  ELSE yearLoop(p, y + 1, it.wealth, it.liquidWealth, it.lastYearSpend, Append(rs, it.row))

yearLoop(p, y, w, lw, lastSpend, rs) ==
  IF y > horizon(p) THEN rs
  ELSE loopStep(p, y, rs, yearIteration(p, y, w, lw, lastSpend))

simulateRows(p) ==
  yearLoop(p, 0, p.startWealth, RMul(p.startWealth, clamp(p.liquidShare, Zero, One)), p.annualExpenseNow, <<>>)

simulateResult(rs) == [rows |-> rs, brokeYear |-> findBrokeIndex(rs)]

simulateDeterministic(p) == simulateResult(simulateRows(p))

\* arr[index] of a JavaScript array: undefined outside 0..length-1
arrayAt(arr, index) ==
  IF index >= 0 /\ index < Len(arr) THEN arr[index + 1] ELSE Hole

\* a ?? b
orElse(a, b) == IF a = Hole THEN b ELSE a

\* the variant with a ceiling below the path counts of the small scenarios
lowCeiling == 1 + 1

\* line 16
MAX_MONTE_CARLO_PATHS == 2000

\* the element of a one-element set
the(S) == CHOOSE x \in S : TRUE

\* [...values].sort((a, b) => a - b): the values in ascending order.  The
\* entry at position k is the value v with fewer than k values below it and
\* at least k values not above it.
sortRanks(values, vs) ==
  [v \in vs |-> <<Cardinality({i \in 1..Len(values) : RLt(values[i], v)}),
                  Cardinality({i \in 1..Len(values) : RLe(values[i], v)})>>]

sortByRanks(values, vs, ranks) ==
  [k \in 1..Len(values) |-> CHOOSE v \in vs : ranks[v][1] < k /\ k <= ranks[v][2]]

sortAmong(values, vs) ==
  the({sortByRanks(values, vs, ranks) : ranks \in {sortRanks(values, vs)}})

sortAscending(values) ==
  the({sortAmong(values, vs) : vs \in {{values[i] : i \in 1..Len(values)}}})

\* Math.floor((q / 100) * (length - 1)); for the quantiles of the program and
\* lengths up to 2001 the floating-point product has the floor of the exact one
percentileIndex(q, length) == (q * (length - 1)) \div 100

\* the variant that indexes by the length instead of length - 1
percentileIndexByLength(q, length) == (q * length) \div 100

\* line 329
percentileOfSorted(sorted, index) ==
  orElse(arrayAt(sorted, index), orElse(arrayAt(sorted, Len(sorted) - 1), Zero))

\* the variant with percentileIndexByLength
computePercentilesByLength(values, quantiles) ==
  [j \in 1..Len(quantiles) |->
     the({percentileOfSorted(sorted, percentileIndexByLength(quantiles[j], Len(sorted))) :
            sorted \in {sortAscending(values)}})]

computePercentiles(values, quantiles) ==
  [j \in 1..Len(quantiles) |->
     the({percentileOfSorted(sorted, percentileIndex(quantiles[j], Len(sorted))) :
            sorted \in {sortAscending(values)}})]

\* line 335
monteCarloPathCount(p) == IMin(p.numPaths, MAX_MONTE_CARLO_PATHS)

\* lines 340-347: z is the three boxMuller() draws, in the order of the code
randomize(p, z) ==
  [p EXCEPT !.assetReturn =
     [public |-> RAdd(p.assetReturn.public, RMul(p.assetVol.public, z[1])),
      private |-> RAdd(p.assetReturn.private, RMul(p.assetVol.private, z[2])),
      cash |-> RAdd(p.assetReturn.cash, RMul(p.assetVol.cash, z[3]))] ]

\* the variant that pads with 0 instead of the last entry
RECURSIVE padTrajectoryWithZero(_, _)

padTrajectoryWithZero(trajectory, length) ==
  IF Len(trajectory) < length
  THEN padTrajectoryWithZero(Append(trajectory, Zero), length)
  ELSE trajectory

\* lines 355-357
RECURSIVE padTrajectory(_, _)

padTrajectory(trajectory, length) ==
  IF Len(trajectory) < length
  THEN padTrajectory(Append(trajectory, orElse(arrayAt(trajectory, Len(trajectory) - 1), Zero)), length)
  ELSE trajectory

\* line 354
wealthOf(rs) == [i \in 1..Len(rs) |-> rs[i].wealth]

\* lines 349-352: the simulator run of one path
monteCarloRows(p, z) ==
  simulateDeterministic([randomize(p, z) EXCEPT !.assetAlloc = normalizeAllocation(p.assetAlloc)]).rows

\* line 362
yearValues(ps, y) == [i \in 1..Len(ps) |-> orElse(arrayAt(ps[i], y), Zero)]

\* the variant that counts only the paths that go below 0
countRuinedBelowZero(ps) ==
  Cardinality({i \in 1..Len(ps) : \E k \in 1..Len(ps[i]) : RLt(ps[i][k], Zero)})

\* lines 379-384
countRuined(ps) ==
  Cardinality({i \in 1..Len(ps) : \E k \in 1..Len(ps[i]) : RLe(ps[i][k], Zero)})

\* let bestResult: DeterministicResult | null = null
NoResult == [rows |-> <<>>, brokeYear |-> -1]

\* calculateReverse, lines 400, 401 and 405
tolerance == R(1000)

maxIterations == 50

searchCeiling == R(1000000000)

\* lines 404 and 410-415
reverseLow(p) ==
  IF RGt(p.lifetimeSpendingTotal, Zero)
  THEN RMax(Zero, RMul(RAdd(p.lifetimeSpendingTotal, p.desiredTerminalWealth), Half))
  ELSE Zero

\* lines 405 and 410-415
reverseHigh(p) ==
  IF RGt(p.lifetimeSpendingTotal, Zero)
  THEN RMax(searchCeiling, RMul(RAdd(p.lifetimeSpendingTotal, p.desiredTerminalWealth), R(2)))
  ELSE searchCeiling

\* line 418
midpoint(lo, hi) == RMul(RAdd(lo, hi), Half)

\* lines 419-424
testRun(p, guess) == simulateDeterministic([p EXCEPT !.startWealth = guess])

\* line 425
finalWealthOf(result) ==
  orElse(arrayAt(wealthOf(result.rows), Len(result.rows) - 1), Zero)

\* line 426
terminalDiff(p, result) == RSub(finalWealthOf(result), p.desiredTerminalWealth)

\* the variant that accepts twice the tolerance
withinDoubleTolerance(diff) == RLt(RAbs(diff), RMul(R(2), tolerance))

\* line 428
withinTolerance(diff) == RLt(RAbs(diff), tolerance)

\* the variant that lowers the upper bound when the terminal wealth is too low
tooLittle(diff) == RLt(diff, Zero)

\* line 434
tooMuch(diff) == RGt(diff, Zero)

\* lines 417-444 as one value: the binary search run to its end
RECURSIVE binarySearch(_, _, _, _, _, _)

RECURSIVE searchNarrow(_, _, _, _, _, _, _)

searchNarrow(p, lo, hi, i, guess, result, diff) ==
  IF withinTolerance(diff) THEN [bestGuess |-> guess, bestResult |-> result]
  ELSE IF tooMuch(diff) THEN binarySearch(p, lo, guess, i + 1, guess, result)
  ELSE binarySearch(p, guess, hi, i + 1, guess, result)

searchDecide(p, lo, hi, i, guess, result) ==
  searchNarrow(p, lo, hi, i, guess, result, terminalDiff(p, result))

searchStep(p, lo, hi, i, guess) == searchDecide(p, lo, hi, i, guess, testRun(p, guess))

binarySearch(p, lo, hi, i, guess, result) ==
  IF i >= maxIterations THEN [bestGuess |-> guess, bestResult |-> result]
  ELSE searchStep(p, lo, hi, i, midpoint(lo, hi))

\* rows.reduce((sum, row) => sum + ..., 0)
RECURSIVE reduceSum(_)

reduceSum(values) ==
  IF values = <<>> THEN Zero ELSE RAdd(reduceSum(SubSeq(values, 1, Len(values) - 1)), values[Len(values)])

\* lines 452-466
reverseRecord(guess, result) ==
  [requiredStartingWealth |-> guess,
   calculatedTerminalWealth |-> finalWealthOf(result),
   totalSpending |-> reduceSum([i \in 1..Len(result.rows) |-> result.rows[i].expense]),
   totalPhilanthropy |-> reduceSum([i \in 1..Len(result.rows) |-> result.rows[i].philanthropy]),
   totalTaxes |-> reduceSum([i \in 1..Len(result.rows) |-> result.rows[i].taxes]),
   totalReturns |-> reduceSum([i \in 1..Len(result.rows) |-> result.rows[i].netReturn]),
   rows |-> result.rows]

\* lines 446-450
fallbackResult(p, guess, result) ==
  IF result = NoResult THEN testRun(p, guess) ELSE result

reverseReturn(p, best) ==
  reverseRecord(best.bestGuess, fallbackResult(p, best.bestGuess, best.bestResult))

calculateReverse(p) ==
  reverseReturn(p, binarySearch(p, reverseLow(p), reverseHigh(p), 0, Zero, NoResult))

----------------------------------------------------------------------------
(* Scenarios: the Params records the engine is run on.  Every record       *)
(* satisfies paramsSchema.                                                 *)

\* longest horizon (deathAge - currentAge) of a scenario
MaxYears == 2

\* paramsSchema, for the fields the engine reads
paramsSchema(p) ==
  /\ p.calculationMode \in {"forward", "reverse"}
  /\ RGe(p.startWealth, Zero)
  /\ RGe(p.liquidShare, Zero) /\ RLe(p.liquidShare, Q(3, 2))
  /\ p.currentAge \in 0..120
  /\ p.deathAge \in 1..130
  /\ p.spendingRule \in {"fixed", "%wealth", "guardrails"}
  /\ RGe(p.annualExpenseNow, Zero)
  /\ RGe(p.expenseInflation, Zero) /\ RLe(p.expenseInflation, One)
  /\ RGe(p.spendPctWealth, Zero) /\ RLe(p.spendPctWealth, One)
  /\ RGe(p.guardrails.targetPctWealth, Zero) /\ RLe(p.guardrails.targetPctWealth, One)
  /\ RGe(p.guardrails.minChange, R(-1)) /\ RLe(p.guardrails.minChange, One)
  /\ RGe(p.guardrails.maxChange, R(-1)) /\ RLe(p.guardrails.maxChange, One)
  /\ p.philanthropyMode \in {"fixed", "%wealth"}
  /\ RGe(p.philanthropyFixedNow, Zero)
  /\ RGe(p.philanthropyPercent, Zero) /\ RLe(p.philanthropyPercent, One)
  /\ p.realMode \in BOOLEAN
  /\ p.taxJurisdiction \in {"custom", "germany", "us", "germany-us"}
  /\ RGe(p.taxInterest, Zero) /\ RLe(p.taxInterest, One)
  /\ RGe(p.taxDividends, Zero) /\ RLe(p.taxDividends, One)
  /\ RGe(p.taxRealizedGains, Zero) /\ RLe(p.taxRealizedGains, One)
  /\ p.holdingCompanyStructure.publicDividendSource \in {"germany", "us", "other"}
  /\ RGe(p.holdingCompanyStructure.usOwnershipPct, Zero)
  /\ RLe(p.holdingCompanyStructure.usOwnershipPct, One)
  /\ RGe(p.holdingCompanyStructure.germanOwnershipPct, Zero)
  /\ RLe(p.holdingCompanyStructure.germanOwnershipPct, One)
  /\ p.holdingCompanyStructure.isVermoegensverwaltend \in BOOLEAN
  /\ RGe(p.holdingCompanyStructure.germanTradeTaxRate, Zero)
  /\ RLe(p.holdingCompanyStructure.germanTradeTaxRate, Q(1, 5))
  /\ RGe(p.holdingCompanyStructure.usCorporateTaxRate, Zero)
  /\ RLe(p.holdingCompanyStructure.usCorporateTaxRate, Half)
  /\ RGe(p.assetAlloc.public, Zero)
  /\ RGe(p.assetAlloc.private, Zero)
  /\ RGe(p.assetAlloc.cash, Zero)
  /\ RGe(p.publicDivYield, Zero)
  /\ RGe(p.publicRealizationRate, Zero) /\ RLe(p.publicRealizationRate, One)
  /\ RGe(p.privateRealizationRate, Zero) /\ RLe(p.privateRealizationRate, One)
  /\ p.privCommit.enabled \in BOOLEAN
  /\ RGe(p.privCommit.totalCommitment, Zero)
  /\ p.privCommit.callYears >= 1
  /\ p.privCommit.distLagYears >= 0
  /\ p.privCommit.distYears >= 1
  /\ RGe(p.privCommit.distMultiple, Zero)
  /\ RGe(p.desiredTerminalWealth, Zero)
  /\ RGe(p.lifetimeSpendingTotal, Zero)
  /\ RGe(p.assetVol.public, Zero)
  /\ RGe(p.assetVol.private, Zero)
  /\ RGe(p.assetVol.cash, Zero)
  /\ p.runMonteCarlo \in BOOLEAN
  /\ p.numPaths \in 100..2000
  /\ \A i \in 1..Len(p.oneOffs) : p.oneOffs[i].year >= 0

Holding(source, usOwn, germanOwn, isV, tradeTax, usRate) ==
  [publicDividendSource |-> source,
   usOwnershipPct |-> usOwn,
   germanOwnershipPct |-> germanOwn,
   isVermoegensverwaltend |-> isV,
   germanTradeTaxRate |-> tradeTax,
   usCorporateTaxRate |-> usRate]

Triple(a, b, c) == [public |-> a, private |-> b, cash |-> c]

Commitment(on, total, callYears, lag, distYears, multiple) ==
  [enabled |-> on,
   totalCommitment |-> total,
   callYears |-> callYears,
   distLagYears |-> lag,
   distYears |-> distYears,
   distMultiple |-> multiple]

Event(id, year, amount) == [id |-> id, year |-> year, amount |-> amount]

BaseScenario ==
  [calculationMode |-> "forward",
   currentAge |-> 60,
   deathAge |-> 60 + MaxYears,
   startWealth |-> R(1000),
   liquidShare |-> Q(3, 5),
   spendingRule |-> "fixed",
   annualExpenseNow |-> R(100),
   expenseInflation |-> Q(1, 50),
   spendPctWealth |-> Q(1, 25),
   guardrails |-> [targetPctWealth |-> Q(1, 25),
                   minChange |-> Q(-1, 20),
                   maxChange |-> Q(1, 20)],
   philanthropyMode |-> "fixed",
   philanthropyFixedNow |-> Zero,
   philanthropyPercent |-> Q(1, 100),
   realMode |-> FALSE,
   taxJurisdiction |-> "custom",
   taxInterest |-> Q(7, 20),
   taxDividends |-> Q(1, 5),
   taxRealizedGains |-> Q(1, 4),
   holdingCompanyStructure |-> Holding("other", Q(1, 10), Q(1, 10), TRUE, Q(7, 50), Q(21, 100)),
   assetAlloc |-> Triple(Q(1, 2), Q(3, 10), Q(1, 5)),
   assetReturn |-> Triple(Q(3, 50), Q(2, 25), Q(3, 100)),
   publicDivYield |-> Q(1, 50),
   publicRealizationRate |-> Q(1, 4),
   privateRealizationRate |-> Q(1, 5),
   privCommit |-> Commitment(FALSE, Zero, 1, 0, 1, Zero),
   assetVol |-> Triple(Q(3, 20), Q(1, 4), Q(1, 100)),
   desiredTerminalWealth |-> Zero,
   lifetimeSpendingTotal |-> Zero,
   runMonteCarlo |-> FALSE,
   numPaths |-> 100,
   oneOffs |-> <<>>]

\* deathAge - currentAge; -1 and 0 are the horizons the schema admits below 1
HorizonChoices == {-1} \cup (0..MaxYears)

SpendingRules == {"fixed", "%wealth", "guardrails"}

\* the tax configurations: jurisdiction, flat rates, holding structure
CustomRateChoices ==
  {<<Q(7, 20), Q(1, 5), Q(1, 4)>>, <<One, One, One>>, <<Zero, Zero, Zero>>}

GermanHoldingChoices ==
  {Holding("other", Q(1, 10), g, v[1], v[2], Q(21, 100)) :
     g \in {Q(1, 20), Q(1, 10), Q(3, 20)},
     v \in {<<TRUE, Q(7, 50)>>, <<FALSE, Q(7, 50)>>}}

GermanUsHoldingChoices ==
  {[h EXCEPT !.publicDividendSource = src, !.usOwnershipPct = u] :
     h \in GermanHoldingChoices,
     src \in {"us", "other"},
     u \in {Q(1, 20), Q(1, 10), Q(4, 5)}}

TaxChoices ==
  {[BaseScenario EXCEPT !.taxInterest = r[1], !.taxDividends = r[2],
                        !.taxRealizedGains = r[3]] : r \in CustomRateChoices}
  \cup {[BaseScenario EXCEPT !.taxJurisdiction = "us",
                             !.holdingCompanyStructure.usCorporateTaxRate = u] :
          u \in {Q(21, 100), Half}}
  \cup {[BaseScenario EXCEPT !.taxJurisdiction = "germany",
                             !.holdingCompanyStructure = h] : h \in GermanHoldingChoices}
  \cup {[BaseScenario EXCEPT !.taxJurisdiction = "germany-us",
                             !.holdingCompanyStructure = h] : h \in GermanUsHoldingChoices}

ReturnChoices ==
  {Triple(Q(3, 50), Q(2, 25), Q(3, 100)),
   Triple(Q(3, 50), Q(2, 25), Q(-1, 10)),
   Triple(Q(-1, 5), Q(-1, 2), Q(-1, 10))}

PositiveReturnChoices ==
  {Triple(Q(3, 50), Q(2, 25), Q(3, 100)), Triple(Q(1, 100), One, Q(1, 2))}

AllocChoices ==
  {Triple(Q(1, 2), Q(3, 10), Q(1, 5)), Triple(R(50), R(0), R(0)),
   Triple(Zero, Zero, R(2)), Triple(Zero, R(3), Zero), Triple(Zero, Zero, Zero)}

CommitmentChoices ==
  {Commitment(FALSE, R(400), 1, 0, 1, R(2)),
   Commitment(TRUE, Zero, 1, 0, 1, R(2)),
   Commitment(TRUE, R(400), 1, 1, 1, R(2)),
   Commitment(TRUE, R(400), 2, 0, 2, Zero),
   Commitment(TRUE, R(600), 3, 5, 3, Q(3, 2))}

OneOffChoices ==
  {<<>>,
   <<Event("a", 1, R(500)), Event("b", 1, R(-200))>>,
   <<Event("a", 0, R(-5000))>>,
   <<Event("a", 0, R(300)), Event("b", 2, R(-300)), Event("c", 9, R(-900))>>,
   <<Event("a", 1, R(500)), Event("b", 1, R(250)), Event("c", 1, R(-200)),
     Event("d", 1, R(-100)), Event("e", 0, Zero), Event("f", 9, R(700))>>}

\* horizon and ruin
HorizonScenarios ==
  {[BaseScenario EXCEPT !.deathAge = 60 + h, !.startWealth = w, !.spendingRule = rule,
                        !.annualExpenseNow = e, !.realMode = m] :
     h \in HorizonChoices, w \in {Zero, R(150), R(1000)}, rule \in SpendingRules,
     e \in {Zero, R(100), R(2000)}, m \in BOOLEAN}

\* the tax engine inside the year loop
TaxScenarios ==
  {[t EXCEPT !.deathAge = 60 + h, !.assetReturn = r, !.assetAlloc = a] :
     t \in TaxChoices, h \in {1, MaxYears}, r \in ReturnChoices,
     a \in {Triple(Q(1, 2), Q(3, 10), Q(1, 5)), Triple(R(50), R(0), R(0)),
            Triple(Zero, Zero, R(2))}}

\* no spending, no giving, no one-off events, positive returns
GrowthScenarios ==
  {[BaseScenario EXCEPT !.spendingRule = rule, !.annualExpenseNow = Zero,
                        !.spendPctWealth = Zero, !.philanthropyMode = pm,
                        !.philanthropyPercent = Zero, !.assetReturn = r,
                        !.publicDivYield = y, !.privCommit = c,
                        !.holdingCompanyStructure = H,
                        !.taxJurisdiction = j, !.taxInterest = t[1],
                        !.taxDividends = t[2], !.taxRealizedGains = t[3]] :
     rule \in SpendingRules, pm \in {"fixed", "%wealth"}, r \in PositiveReturnChoices,
     y \in {Q(1, 100), Half}, j \in {"custom", "germany", "us", "germany-us"},
     c \in {Commitment(FALSE, R(400), 1, 0, 1, R(2)),
            Commitment(TRUE, R(400), 1, 1, 1, Zero),
            Commitment(TRUE, R(400), 2, 0, 2, Zero)},
     t \in {<<Q(7, 20), Q(1, 5), Q(1, 4)>>, <<One, One, One>>},
     H \in {Holding("us", Zero, Zero, FALSE, Q(1, 5), Half)}}

\* the liquid sub-ledger
LiquidScenarios ==
  {[BaseScenario EXCEPT !.deathAge = 60 + h, !.liquidShare = s, !.assetAlloc = a,
                        !.assetReturn = r, !.annualExpenseNow = e] :
     h \in {1, MaxYears}, s \in {Zero, Q(3, 5), One, Q(3, 2)}, a \in AllocChoices,
     r \in ReturnChoices, e \in {Zero, R(100), R(2000)}}

\* the guardrails spending rule
GuardrailScenarios ==
  {[BaseScenario EXCEPT !.spendingRule = "guardrails", !.startWealth = w,
                        !.annualExpenseNow = e, !.realMode = m,
                        !.guardrails = [targetPctWealth |-> t, minChange |-> lo,
                                        maxChange |-> hi]] :
     w \in {R(1000), R(10000)}, e \in {Zero, R(100)}, m \in BOOLEAN,
     t \in {Zero, Q(1, 25), One}, lo \in {R(-1), Q(-1, 20), Q(1, 5)},
     hi \in {Q(-1, 20), Q(1, 20), One}}

\* private commitments, one-off events, philanthropy
CashflowScenarios ==
  {[BaseScenario EXCEPT !.deathAge = 60 + h, !.privCommit = c, !.oneOffs = o,
                        !.philanthropyMode = ph[1], !.philanthropyFixedNow = ph[2],
                        !.philanthropyPercent = ph[3]] :
     h \in {0, 1, MaxYears}, c \in CommitmentChoices, o \in OneOffChoices,
     ph \in {<<"fixed", Zero, Zero>>, <<"fixed", R(50), Zero>>,
             <<"%wealth", Zero, Q(1, 100)>>, <<"%wealth", R(50), One>>}}

Scenarios ==
  HorizonScenarios \cup TaxScenarios \cup GrowthScenarios \cup LiquidScenarios
  \cup GuardrailScenarios \cup CashflowScenarios

----------------------------------------------------------------------------
(* simulateDeterministic as a state machine: one step per loop iteration.  *)

NoTaxArgs ==
  [baseForReturn |-> Zero, allocation |-> Triple(Zero, Zero, Zero),
   publicDivYield |-> Zero, publicRealized |-> Zero, cashReturn |-> Zero,
   privateRealized |-> Zero]

NoTaxOut ==
  [full |-> Zero, liquid |-> Zero, fullNoPrivate |-> Zero, germany |-> Zero,
   dividendTax |-> Zero]

SimIdle ==
  /\ pc = "idle"
  /\ yearIndex = 0
  /\ wealth = Zero
  /\ liquidWealth = Zero
  /\ lastYearSpend = Zero
  /\ liquidTaxes = Zero
  /\ rows = <<>>
  /\ brokeYear = -1

TaxIdle ==
  /\ taxArgs = NoTaxArgs
  /\ taxPc = "idle"
  /\ taxOut = NoTaxOut

NoSchedule == [calls |-> <<>>, distributions |-> <<>>]

SchedIdle ==
  /\ schedArgs = [privCommit |-> BaseScenario.privCommit, years |-> 0]
  /\ schedPc = "idle"
  /\ schedOut = NoSchedule

NoBands == [q \in {5, 25, 50, 75, 95} |-> <<>>]

McIdle ==
  /\ mcPc = "idle"
  /\ pathIdx = 0
  /\ paths = <<>>
  /\ rowCounts = <<>>
  /\ yearIdx = 0
  /\ bands = NoBands
  /\ ruinProbability = <<0, 1>>

NoReverseResult ==
  [requiredStartingWealth |-> Zero, calculatedTerminalWealth |-> Zero,
   totalSpending |-> Zero, totalPhilanthropy |-> Zero, totalTaxes |-> Zero,
   totalReturns |-> Zero, rows |-> <<>>]

RevIdle ==
  /\ revPc = "idle"
  /\ low = Zero
  /\ high = Zero
  /\ bestGuess = Zero
  /\ bestResult = NoResult
  /\ iter = 0
  /\ runs = <<>>
  /\ reverseResult = NoReverseResult

NoPayload == [wellFormed |-> FALSE, value |-> <<>>]

NoImportResult == [success |-> FALSE]

ImportIdle ==
  /\ payload = NoPayload
  /\ impPc = "idle"
  /\ importResult = NoImportResult

CallIdle ==
  /\ callArgs = <<>>
  /\ callPc = "idle"
  /\ callOut = <<>>

NoOp == [name |-> "none"]

NoSimInput == [fn |-> "none"]

PageIdle ==
  /\ pagePc = "idle"
  /\ version = 0
  /\ opCount = 0
  /\ lastOp = NoOp
  /\ debounced = [version |-> 0]
  /\ timers = {}
  /\ sinceChange = 0
  /\ simInput = NoSimInput
  /\ handed = {}
  /\ replacedEarly = {}

Init ==
  /\ params \in Scenarios
  /\ pc = "start"
  /\ yearIndex = 0
  /\ wealth = Zero
  /\ liquidWealth = Zero
  /\ lastYearSpend = Zero
  /\ liquidTaxes = Zero
  /\ rows = <<>>
  /\ brokeYear = -1
  /\ TaxIdle
  /\ SchedIdle
  /\ McIdle
  /\ RevIdle
  /\ ImportIdle
  /\ CallIdle
  /\ PageIdle

\* lines 196-207: the locals before the year loop
SimulateStart ==
  /\ pc = "start"
  /\ wealth' = params.startWealth
  /\ liquidWealth' = RMul(params.startWealth, clamp(params.liquidShare, Zero, One))
  /\ lastYearSpend' = params.annualExpenseNow
  /\ rows' = <<>>
  /\ yearIndex' = 0
  /\ pc' = "loop"
  /\ UNCHANGED <<params, liquidTaxes, brokeYear, nonSimVars>>

\* lines 209-318: one iteration of the year loop, with its break
YearLoop ==
  /\ pc = "loop"
  /\ yearIndex <= horizon(params)
  /\ \E it \in {yearIteration(params, yearIndex, wealth, liquidWealth, lastYearSpend)} :
       /\ rows' = Append(rows, it.row)
       /\ wealth' = it.wealth
       /\ liquidWealth' = it.liquidWealth
       /\ lastYearSpend' = it.lastYearSpend
       /\ liquidTaxes' = it.liquidTaxes
       /\ IF RLe(it.wealth, Zero)
          THEN pc' = "exit" /\ yearIndex' = yearIndex
          ELSE pc' = "loop" /\ yearIndex' = yearIndex + 1
  /\ UNCHANGED <<params, brokeYear, nonSimVars>>

\* line 209: the loop condition fails
LoopEnd ==
  /\ pc = "loop"
  /\ yearIndex > horizon(params)
  /\ pc' = "exit"
  /\ UNCHANGED <<params, yearIndex, wealth, liquidWealth, lastYearSpend, liquidTaxes,
                 rows, brokeYear, nonSimVars>>

\* lines 320-322: brokeYear and the return
SimulateReturn ==
  /\ pc = "exit"
  /\ brokeYear' = findBrokeIndex(rows)
  /\ pc' = "done"
  /\ UNCHANGED <<params, yearIndex, wealth, liquidWealth, lastYearSpend, liquidTaxes,
                 rows, nonSimVars>>

Next == SimulateStart \/ YearLoop \/ LoopEnd \/ SimulateReturn

Spec == Init /\ [][Next]_vars

----------------------------------------------------------------------------
(* The tax engine on its own: a caller hands one argument list to the      *)
(* entry points of src/lib/tax.ts in turn.                                 *)

TaxArgChoices ==
  {[baseForReturn |-> b, allocation |-> a, publicDivYield |-> y,
    publicRealized |-> g, cashReturn |-> c, privateRealized |-> v] :
     b \in {Zero, R(1000000)},
     a \in {Triple(Q(1, 2), Q(3, 10), Q(1, 5)), Triple(One, Zero, Zero),
            Triple(Zero, One, Zero), Triple(Zero, Zero, One)},
     y \in {Zero, Q(1, 50)},
     g \in {Zero, Q(1, 100)},
     c \in {Q(-1, 10), Zero, Q(3, 100)},
     v \in {Zero, Q(1, 20)}}

TaxInit ==
  /\ params \in TaxChoices
  /\ taxArgs \in TaxArgChoices
  /\ taxPc = "args"
  /\ taxOut = NoTaxOut
  /\ SimIdle
  /\ SchedIdle
  /\ McIdle
  /\ RevIdle
  /\ ImportIdle
  /\ CallIdle
  /\ PageIdle

\* computeTaxes({params, baseForReturn, allocation, ...})
CallComputeTaxes ==
  /\ taxPc = "args"
  /\ taxOut' = [taxOut EXCEPT !.full =
       computeTaxes(params, taxArgs.baseForReturn, taxArgs.allocation,
                    taxArgs.publicDivYield, taxArgs.publicRealized,
                    taxArgs.cashReturn, taxArgs.privateRealized)]
  /\ taxPc' = "full"
  /\ UNCHANGED <<params, taxArgs, nonTaxVars>>

\* computeLiquidTaxes on the same arguments
CallComputeLiquidTaxes ==
  /\ taxPc = "full"
  /\ taxOut' = [taxOut EXCEPT !.liquid =
       computeLiquidTaxes(params, taxArgs.baseForReturn, taxArgs.allocation,
                          taxArgs.publicDivYield, taxArgs.publicRealized,
                          taxArgs.cashReturn)]
  /\ taxPc' = "liquid"
  /\ UNCHANGED <<params, taxArgs, nonTaxVars>>

\* computeTaxes on the same arguments with privateRealized: 0
CallWithoutPrivate ==
  /\ taxPc = "liquid"
  /\ taxOut' = [taxOut EXCEPT !.fullNoPrivate =
       computeTaxes(params, taxArgs.baseForReturn, taxArgs.allocation,
                    taxArgs.publicDivYield, taxArgs.publicRealized,
                    taxArgs.cashReturn, Zero)]
  /\ taxPc' = "noPrivate"
  /\ UNCHANGED <<params, taxArgs, nonTaxVars>>

\* computeTaxes on the same arguments with taxJurisdiction: "germany"
CallGermany ==
  /\ taxPc = "noPrivate"
  /\ taxOut' = [taxOut EXCEPT !.germany =
       computeTaxes([params EXCEPT !.taxJurisdiction = "germany"],
                    taxArgs.baseForReturn, taxArgs.allocation,
                    taxArgs.publicDivYield, taxArgs.publicRealized,
                    taxArgs.cashReturn, taxArgs.privateRealized)]
  /\ taxPc' = "germany"
  /\ UNCHANGED <<params, taxArgs, nonTaxVars>>

\* calculateGermanDividendTax on the public dividend income of the arguments
CallGermanDividendTax ==
  /\ taxPc = "germany"
  /\ taxOut' = [taxOut EXCEPT !.dividendTax =
       calculateGermanDividendTax(
         RMul(RMul(taxArgs.baseForReturn, taxArgs.allocation.public),
              taxArgs.publicDivYield),
         params.holdingCompanyStructure.germanOwnershipPct,
         params.holdingCompanyStructure.germanTradeTaxRate,
         params.holdingCompanyStructure.isVermoegensverwaltend)]
  /\ taxPc' = "done"
  /\ UNCHANGED <<params, taxArgs, nonTaxVars>>

TaxNext ==
  \/ CallComputeTaxes
  \/ CallComputeLiquidTaxes
  \/ CallWithoutPrivate
  \/ CallGermany
  \/ CallGermanDividendTax

TaxSpec == TaxInit /\ [][TaxNext]_vars

----------------------------------------------------------------------------
(* Properties of the tax engine (TaxSpec).                                 *)

\* C6 as stated: under taxJurisdiction = custom, computeTaxes returns exactly
\* the sum of the four per-bucket terms, for every input, also a negative
\* cash return.
C6_CustomTaxIsTermSum ==
  (taxPc # "args" /\ params.taxJurisdiction = "custom") =>
    LET base == taxArgs.baseForReturn
        alloc == taxArgs.allocation
    IN  taxOut.full =
          RAdd(RAdd(RAdd(
            RMul(RMul(RMul(base, alloc.public), taxArgs.publicDivYield),
                 params.taxDividends),
            RMul(RMul(RMul(base, alloc.public), taxArgs.publicRealized),
                 params.taxRealizedGains)),
            RMul(RMul(RMul(base, alloc.cash), taxArgs.cashReturn), params.taxInterest)),
            RMul(RMul(RMul(base, alloc.private), taxArgs.privateRealized),
                 params.taxRealizedGains))

\* C6 amended: under taxJurisdiction = custom, computeTaxes returns the sum of
\* the four per-bucket terms floored at 0: max(0, dividends + public realized
\* gains + cash interest + private realized gains, each at its flat rate).
C6_CustomTaxIsFlooredTermSum ==
  (taxPc # "args" /\ params.taxJurisdiction = "custom") =>
    LET base == taxArgs.baseForReturn
        alloc == taxArgs.allocation
    IN  taxOut.full =
          RMax(Zero, RAdd(RAdd(RAdd(
            RMul(RMul(RMul(base, alloc.public), taxArgs.publicDivYield),
                 params.taxDividends),
            RMul(RMul(RMul(base, alloc.public), taxArgs.publicRealized),
                 params.taxRealizedGains)),
            RMul(RMul(RMul(base, alloc.cash), taxArgs.cashReturn), params.taxInterest)),
            RMul(RMul(RMul(base, alloc.private), taxArgs.privateRealized),
                 params.taxRealizedGains)))

\* a custom-rate call with a negative cash return, all four buckets taxed and
\* a positive total
C6_Witness ==
  /\ taxPc = "full"
  /\ params.taxJurisdiction = "custom"
  /\ RLt(taxArgs.cashReturn, Zero)
  /\ RGt(taxArgs.allocation.cash, Zero)
  /\ RGt(taxArgs.privateRealized, Zero)
  /\ RGt(taxArgs.publicDivYield, Zero)
  /\ RGt(taxArgs.publicRealized, Zero)
  /\ RGt(params.taxInterest, Zero)
  /\ RGt(taxOut.full, Zero)

\* C7: in every jurisdiction the liquid tax equals the full tax on the same
\* input with private realized gains set to 0, and never exceeds the full tax.
C7_LiquidIsFullWithoutPrivate ==
  (taxPc \in {"noPrivate", "germany", "done"}) =>
    /\ taxOut.liquid = taxOut.fullNoPrivate
    /\ RLe(taxOut.liquid, taxOut.full)

\* a germany-us call where the private bucket carries tax
C7_Witness ==
  /\ taxPc = "done"
  /\ params.taxJurisdiction = "germany-us"
  /\ params.holdingCompanyStructure.publicDividendSource = "us"
  /\ RGt(taxOut.liquid, Zero)
  /\ RLt(taxOut.liquid, taxOut.full)

\* C8 as stated: under germany and germany-us, with germanOwnershipPct >= 10%
\* the German dividend tax is 5% of the dividend at the effective rate
\* 0.15 + 0.15*0.055 + trade tax (0 for an asset-management holding), and
\* below 10% it is the whole dividend at the effective rate.
C8_DividendTaxOnFivePercent ==
  (taxPc = "done" /\ params.taxJurisdiction \in {"germany", "germany-us"}) =>
    LET h == params.holdingCompanyStructure
        dividend == RMul(RMul(taxArgs.baseForReturn, taxArgs.allocation.public),
                         taxArgs.publicDivYield)
        tradeTax == IF h.isVermoegensverwaltend THEN Zero ELSE h.germanTradeTaxRate
        rate == RAdd(RAdd(Q(3, 20), RMul(Q(3, 20), Q(11, 200))), tradeTax)
    IN  IF RGe(h.germanOwnershipPct, Q(1, 10))
        THEN taxOut.dividendTax = RMul(RMul(dividend, Q(1, 20)), rate)
        ELSE taxOut.dividendTax = RMul(dividend, rate)

\* C8 amended: with germanOwnershipPct >= 15%, or >= 10% for an
\* asset-management holding, the German dividend tax is 5% of the dividend at
\* the effective rate; with 10% <= germanOwnershipPct < 15% and a holding that
\* is not asset-management it is 5% of the dividend at 0.15 + 0.15*0.055 plus
\* germanTradeTaxRate on the whole dividend; below 10% it is the whole
\* dividend at the effective rate.
C8_DividendTaxByOwnership ==
  (taxPc = "done" /\ params.taxJurisdiction \in {"germany", "germany-us"}) =>
    LET h == params.holdingCompanyStructure
        dividend == RMul(RMul(taxArgs.baseForReturn, taxArgs.allocation.public),
                         taxArgs.publicDivYield)
        tradeTax == IF h.isVermoegensverwaltend THEN Zero ELSE h.germanTradeTaxRate
        corporate == RAdd(Q(3, 20), RMul(Q(3, 20), Q(11, 200)))
        rate == RAdd(corporate, tradeTax)
    IN  IF RGe(h.germanOwnershipPct, Q(3, 20))
           \/ (RGe(h.germanOwnershipPct, Q(1, 10)) /\ h.isVermoegensverwaltend)
        THEN taxOut.dividendTax = RMul(RMul(dividend, Q(1, 20)), rate)
        ELSE IF RGe(h.germanOwnershipPct, Q(1, 10))
             THEN taxOut.dividendTax =
                    RAdd(RMul(RMul(dividend, Q(1, 20)), corporate),
                         RMul(dividend, h.germanTradeTaxRate))
             ELSE taxOut.dividendTax = RMul(dividend, rate)

\* a dividend taxed at exactly 10% ownership in a holding that pays trade tax
C8_Witness ==
  /\ taxPc = "done"
  /\ params.taxJurisdiction = "germany"
  /\ params.holdingCompanyStructure.germanOwnershipPct = Q(1, 10)
  /\ ~params.holdingCompanyStructure.isVermoegensverwaltend
  /\ RGt(taxOut.dividendTax, Zero)

\* C9 as stated: the germany-us tax equals the germany tax plus
\* withholdingRate * public dividend income when publicDividendSource is "us"
\* (0% from 80% U.S. ownership, 5% from 10%, else 30%), and the germany tax
\* exactly for any other source.
C9_GermanyUsIsGermanyPlusWithholding ==
  (taxPc = "done" /\ params.taxJurisdiction = "germany-us") =>
    LET h == params.holdingCompanyStructure
        dividend == RMul(RMul(taxArgs.baseForReturn, taxArgs.allocation.public),
                         taxArgs.publicDivYield)
        withholdingRate == IF RGe(h.usOwnershipPct, Q(4, 5)) THEN Zero
                           ELSE IF RGe(h.usOwnershipPct, Q(1, 10)) THEN Q(1, 20)
                           ELSE Q(3, 10)
    IN  IF h.publicDividendSource = "us"
        THEN taxOut.full = RAdd(taxOut.germany, RMul(withholdingRate, dividend))
        ELSE taxOut.full = taxOut.germany

----------------------------------------------------------------------------
(* Properties of simulateDeterministic (Spec).                             *)

\* C1: a row with wealth <= 0 is the last row and the year loop has stopped;
\* brokeYear is the index of that row, or -1 when no row has wealth <= 0, so
\* brokeYear is -1 or rows.length - 1.
C1_RuinRowIsLast ==
  /\ \A i \in 1..Len(rows) :
       RLe(rows[i].wealth, Zero) => (i = Len(rows) /\ pc \in {"exit", "done"})
  /\ pc = "done" =>
       /\ brokeYear \in {-1, Len(rows) - 1}
       /\ (brokeYear = -1) <=> (\A i \in 1..Len(rows) : RGt(rows[i].wealth, Zero))
       /\ brokeYear # -1 => RLe(rows[brokeYear + 1].wealth, Zero)

\* a run that went broke after its first year and before its horizon
C1_Witness ==
  /\ pc = "done"
  /\ brokeYear = 1
  /\ Len(rows) = 2
  /\ horizon(params) >= 2

\* C2 as stated: a schema-valid run that does not go broke before the final
\* year has years + 1 rows, years = max(1, deathAge - currentAge), row i has
\* year i and age currentAge + i, and the last row's age is deathAge.
C2_RowsReachDeathAge ==
  (/\ pc = "done"
   /\ paramsSchema(params)
   /\ \A i \in 1..Len(rows) :
        RLe(rows[i].wealth, Zero) => i - 1 = IMax(1, params.deathAge - params.currentAge))
  =>
    /\ Len(rows) = IMax(1, params.deathAge - params.currentAge) + 1
    /\ \A i \in 1..Len(rows) :
         rows[i].year = i - 1 /\ rows[i].age = params.currentAge + (i - 1)
    /\ rows[Len(rows)].age = params.deathAge

\* C3 as stated: in a schema-valid scenario with zero spending, zero philanthropy, no one-off events and
\* strictly positive returns on all three asset classes, the wealth of each
\* row is at least the wealth of the previous row.
C3_WealthNonDecreasing ==
  (/\ paramsSchema(params)
   /\ \A i \in 1..Len(rows) : rows[i].expense = Zero /\ rows[i].philanthropy = Zero
   /\ params.oneOffs = <<>>
   /\ RGt(params.assetReturn.public, Zero)
   /\ RGt(params.assetReturn.private, Zero)
   /\ RGt(params.assetReturn.cash, Zero))
  => \A i \in 2..Len(rows) : RGe(rows[i].wealth, rows[i - 1].wealth)

\* C3 amended: in a schema-valid scenario with zero spending, zero philanthropy, no one-off events,
\* strictly positive returns on all three asset classes, no private capital
\* call after year 0 and publicDivYield not above the public return, the
\* wealth of each row is at least the wealth of the previous row.
C3_WealthNonDecreasingWithoutCalls ==
  (/\ paramsSchema(params)
   /\ \A i \in 1..Len(rows) : rows[i].expense = Zero /\ rows[i].philanthropy = Zero
   /\ params.oneOffs = <<>>
   /\ RGt(params.assetReturn.public, Zero)
   /\ RGt(params.assetReturn.private, Zero)
   /\ RGt(params.assetReturn.cash, Zero)
   /\ \/ ~params.privCommit.enabled
      \/ RLe(params.privCommit.totalCommitment, Zero)
      \/ params.privCommit.callYears <= 1
   /\ RLe(params.publicDivYield, params.assetReturn.public))
  => \A i \in 2..Len(rows) : RGe(rows[i].wealth, rows[i - 1].wealth)

\* a finished run without spending, taxed at 100% flat rates, that grew in
\* every year after a capital call in year 0
C3_Witness ==
  /\ pc = "done"
  /\ Len(rows) = 3
  /\ \A i \in 1..Len(rows) : rows[i].expense = Zero /\ rows[i].philanthropy = Zero
  /\ params.oneOffs = <<>>
  /\ RGt(params.assetReturn.public, Zero)
  /\ RGt(params.assetReturn.private, Zero)
  /\ RGt(params.assetReturn.cash, Zero)
  /\ params.privCommit.enabled
  /\ params.privCommit.callYears = 1
  /\ RGt(rows[1].outflows, Zero)
  /\ RLe(params.publicDivYield, params.assetReturn.public)
  /\ params.taxDividends = One
  /\ RGt(rows[2].wealth, rows[1].wealth)
  /\ RGt(rows[3].wealth, rows[2].wealth)

\* C4 as stated: in every emitted row 0 <= liquidWealth <= wealth.
C4_LiquidWithinWealth ==
  \A i \in 1..Len(rows) :
    RGe(rows[i].liquidWealth, Zero) /\ RLe(rows[i].liquidWealth, rows[i].wealth)

\* C5: under the guardrails rule the expense of every row lies between
\* min(lo, hi) and max(lo, hi), lo = prev * (1 + inflation + minChange),
\* hi = prev * (1 + inflation + maxChange), prev the previous row's expense
\* (annualExpenseNow for year 0), inflation 0 in real mode.
C5_GuardrailsWithinBounds ==
  params.spendingRule = "guardrails" =>
    \A i \in 1..Len(rows) :
      LET prev == IF i = 1 THEN params.annualExpenseNow ELSE rows[i - 1].expense
          inflation == IF params.realMode THEN Zero ELSE params.expenseInflation
          lo == RMul(prev, RAdd(RAdd(One, inflation), params.guardrails.minChange))
          hi == RMul(prev, RAdd(RAdd(One, inflation), params.guardrails.maxChange))
      IN  /\ RGe(rows[i].expense, RMin(lo, hi))
          /\ RLe(rows[i].expense, RMax(lo, hi))

\* a guardrails run with minChange > maxChange whose target lies above both
\* bounds in year 1, so the spend is the larger bound
C5_Witness ==
  /\ pc = "done"
  /\ params.spendingRule = "guardrails"
  /\ RGt(params.guardrails.minChange, params.guardrails.maxChange)
  /\ Len(rows) >= 2
  /\ RGt(rows[1].expense, Zero)
  /\ rows[2].expense =
       RMul(rows[1].expense,
            RAdd(RAdd(One, IF params.realMode THEN Zero ELSE params.expenseInflation),
                 params.guardrails.minChange))

\* C10: every tax the engine returns inside the year loop, full and liquid,
\* is >= 0, and in every row taxes >= 0 and netReturnPct <= grossReturnPct.
C10_TaxesNonNegative ==
  /\ RGe(liquidTaxes, Zero)
  /\ \A i \in 1..Len(rows) :
       /\ RGe(rows[i].taxes, Zero)
       /\ RatioLe(rows[i].netReturnPct, rows[i].grossReturnPct)

\* a germany-us year with a negative cash return on an all-cash allocation:
\* the tax terms sum below 0 and the tax returned is 0
C10_Witness ==
  /\ pc = "done"
  /\ params.taxJurisdiction = "germany-us"
  /\ RLt(params.assetReturn.cash, Zero)
  /\ params.assetAlloc.public = Zero /\ params.assetAlloc.private = Zero
  /\ RLt(rows[1].interestIncome, Zero)
  /\ rows[1].taxes = Zero
  /\ RLt(rows[1].grossReturnPct, Zero)

\* the sum of the absolute amounts of the events with the given positions
RECURSIVE SumAbsAmounts(_, _)
SumAbsAmounts(events, positions) ==
  IF positions = {} THEN Zero
  ELSE LET k == CHOOSE k \in positions : TRUE
       IN  RAdd(RAbs(events[k].amount), SumAbsAmounts(events, positions \ {k}))

\* the positions of the events of one sign (1 or -1) whose year is among years
EventsOf(sign, years) ==
  {k \in 1..Len(params.oneOffs) :
     /\ params.oneOffs[k].year \in years
     /\ IF sign = 1 THEN RGt(params.oneOffs[k].amount, Zero)
                    ELSE RLt(params.oneOffs[k].amount, Zero)}

\* the private capital call and distribution of row i
PrivateCallOf(i) == generatePrivateSchedules(params.privCommit, horizon(params)).calls[i]

PrivateDistributionOf(i) ==
  generatePrivateSchedules(params.privCommit, horizon(params)).distributions[i]

\* the one-off inflows and outflows that went into row i
RowOneOffInflows(i) == RSub(rows[i].inflows, PrivateDistributionOf(i))

RowOneOffOutflows(i) ==
  RSub(RSub(RSub(rows[i].outflows, rows[i].expense), rows[i].philanthropy),
       PrivateCallOf(i))

RECURSIVE TotalOneOffInflows(_)
TotalOneOffInflows(n) ==
  IF n = 0 THEN Zero ELSE RAdd(TotalOneOffInflows(n - 1), RowOneOffInflows(n))

RECURSIVE TotalOneOffOutflows(_)
TotalOneOffOutflows(n) ==
  IF n = 0 THEN Zero ELSE RAdd(TotalOneOffOutflows(n - 1), RowOneOffOutflows(n))

\* C25: the one-off inflows of a year are the sum of the positive amounts of
\* the events of that year, the one-off outflows the sum of the absolute
\* amounts of its negative events, and events of other years add nothing: over
\* a run each event is applied in at most one row, and an event whose year lies
\* beyond the last emitted row is never applied.
C25_OneOffsCountInTheirYearOnly ==
  /\ \A i \in 1..Len(rows) :
       /\ RowOneOffInflows(i) = SumAbsAmounts(params.oneOffs, EventsOf(1, {i - 1}))
       /\ RowOneOffOutflows(i) = SumAbsAmounts(params.oneOffs, EventsOf(-1, {i - 1}))
  /\ TotalOneOffInflows(Len(rows))
       = SumAbsAmounts(params.oneOffs, EventsOf(1, 0..(Len(rows) - 1)))
  /\ TotalOneOffOutflows(Len(rows))
       = SumAbsAmounts(params.oneOffs, EventsOf(-1, 0..(Len(rows) - 1)))

\* a finished run with a year that has two inflows and two outflows, and an
\* inflow whose year lies beyond the last row
C25_Witness ==
  /\ pc = "done"
  /\ Len(rows) >= 2
  /\ Cardinality(EventsOf(1, {1})) = 2
  /\ Cardinality(EventsOf(-1, {1})) = 2
  /\ RowOneOffInflows(2) = R(750)
  /\ RowOneOffOutflows(2) = R(300)
  /\ \E k \in 1..Len(params.oneOffs) :
       params.oneOffs[k].year >= Len(rows) /\ RGt(params.oneOffs[k].amount, Zero)

\* the wealth the year of row i started from
PreviousWealth(i) == IF i = 1 THEN params.startWealth ELSE rows[i - 1].wealth

\* the base the returns of row i are earned on, from the row's own flows
RowBase(i) ==
  RMax(Zero, RAdd(RSub(PreviousWealth(i), RMul(Half, rows[i].outflows)),
                  RMul(Half, rows[i].inflows)))

\* the gross return rate of the run: the normalized weights times the returns
RunGrossReturn ==
  LET allocation == normalizeAllocation(params.assetAlloc)
  IN  RAdd(RAdd(RMul(allocation.public, params.assetReturn.public),
                RMul(allocation.private, params.assetReturn.private)),
           RMul(allocation.cash, params.assetReturn.cash))

\* C27: for every emitted row i, row.wealth = w + row.inflows + row.netReturn
\* - row.outflows with w the wealth of row i-1 (startWealth for i = 0),
\* row.netReturn = base * grossReturn - row.taxes,
\* base = max(0, w - 0.5*row.outflows + 0.5*row.inflows),
\* outflows = expense + philanthropy + one-off outflows + private call and
\* inflows = one-off inflows + private distribution.
C27_WealthRecurrence ==
  \A i \in 1..Len(rows) :
    /\ rows[i].wealth =
         RSub(RAdd(RAdd(PreviousWealth(i), rows[i].inflows), rows[i].netReturn),
              rows[i].outflows)
    /\ rows[i].netReturn = RSub(RMul(RowBase(i), RunGrossReturn), rows[i].taxes)
    /\ rows[i].outflows =
         RAdd(RAdd(RAdd(rows[i].expense, rows[i].philanthropy),
                   SumAbsAmounts(params.oneOffs, EventsOf(-1, {i - 1}))),
              PrivateCallOf(i))
    /\ rows[i].inflows =
         RAdd(SumAbsAmounts(params.oneOffs, EventsOf(1, {i - 1})),
              PrivateDistributionOf(i))

\* a finished run whose second year has one-off flows of both signs and a
\* private call, pays tax, earns on a positive base and changes the wealth
C27_Witness ==
  /\ pc = "done"
  /\ Len(rows) >= 2
  /\ EventsOf(1, {1}) # {} /\ EventsOf(-1, {1}) # {}
  /\ RGt(PrivateCallOf(2), Zero)
  /\ RGt(rows[2].taxes, Zero)
  /\ RGt(RowBase(2), Zero)
  /\ rows[2].wealth # rows[1].wealth

\* the liquid wealth and the last spend the year of row i started from
LiquidBefore(i) ==
  IF i = 1 THEN RMul(params.startWealth, clamp(params.liquidShare, Zero, One))
  ELSE rows[i - 1].liquidWealth

PreviousSpend(i) == IF i = 1 THEN params.annualExpenseNow ELSE rows[i - 1].expense

\* the liquid return of row i: the base times the public and cash parts of
\* the normalized weights times their returns
RowLiquidReturn(i) ==
  LET allocation == normalizeAllocation(params.assetAlloc)
  IN  RMul(RowBase(i),
           RAdd(RMul(allocation.public, params.assetReturn.public),
                RMul(allocation.cash, params.assetReturn.cash)))

\* the same parameters with another private return and realization rate
PrivateAlternatives ==
  {[params EXCEPT !.assetReturn.private = r, !.privateRealizationRate = q] :
     r \in {Q(-1, 2), One}, q \in {Zero, One}}

\* C29: in one year step from a given state the new liquidWealth is
\* max(0, liquidBefore + one-off inflows + private distribution - private call
\* - expense - philanthropy - one-off outflows
\* + base*(alloc.public*publicReturn + alloc.cash*cashReturn) - liquidTax); it
\* is never below 0, and from the same starting state it is the same whatever
\* the private asset's return and realization rate (and so the tax on private
\* gains) are.
C29_LiquidLedgerStep ==
  /\ rows # <<>> =>
       LET i == Len(rows)
       IN  /\ liquidWealth = rows[i].liquidWealth
           /\ rows[i].liquidWealth =
                RMax(Zero,
                     RSub(RAdd(RSub(RSub(RSub(RSub(RAdd(RAdd(LiquidBefore(i),
                                                             SumAbsAmounts(params.oneOffs, EventsOf(1, {i - 1}))),
                                                        PrivateDistributionOf(i)),
                                                   PrivateCallOf(i)),
                                              rows[i].expense),
                                         rows[i].philanthropy),
                                    SumAbsAmounts(params.oneOffs, EventsOf(-1, {i - 1}))),
                               RowLiquidReturn(i)),
                          liquidTaxes))
  /\ \A i \in 1..Len(rows) : RGe(rows[i].liquidWealth, Zero)
  /\ pc \in {"loop", "exit"} /\ rows # <<>> =>
       \A other \in PrivateAlternatives :
         yearIteration(other, Len(rows) - 1, PreviousWealth(Len(rows)),
                       LiquidBefore(Len(rows)), PreviousSpend(Len(rows))).liquidWealth
           = liquidWealth

\* a finished run holding private assets whose second year pays liquid tax and
\* tax on private gains, ends with liquid wealth above 0, and would have ended
\* with another total wealth under another private return
C29_Witness ==
  /\ pc = "done"
  /\ Len(rows) >= 2
  /\ RGt(normalizeAllocation(params.assetAlloc).private, Zero)
  /\ RGt(liquidTaxes, Zero)
  /\ RGt(rows[2].taxes, liquidTaxes)
  /\ RGt(rows[2].liquidWealth, Zero)
  /\ \E other \in PrivateAlternatives :
       yearIteration(other, 1, PreviousWealth(2), LiquidBefore(2),
                     PreviousSpend(2)).wealth # rows[2].wealth

----------------------------------------------------------------------------
(* generatePrivateSchedules on its own: a caller hands it one commitment   *)
(* and one horizon.                                                        *)

\* the commitments and horizons of the calls; the longest horizon is the one
\* of the 10-year example
ScheduleArgChoices ==
  {[privCommit |-> Commitment(on, total, callYears, lag, distYears, multiple),
    years |-> years] :
     on \in BOOLEAN, total \in {Zero, R(400), R(2000000)}, callYears \in {1, 2, 4},
     lag \in {0, 1, MaxYears + 2, 12}, distYears \in {1, 2, 3},
     multiple \in {Zero, R(2), Q(3, 2)}, years \in (0..(MaxYears + 1)) \cup {10}}

ScheduleInit ==
  /\ schedArgs \in ScheduleArgChoices
  /\ schedPc = "args"
  /\ schedOut = NoSchedule
  /\ params = BaseScenario
  /\ SimIdle
  /\ TaxIdle
  /\ McIdle
  /\ RevIdle
  /\ ImportIdle
  /\ CallIdle
  /\ PageIdle

\* generatePrivateSchedules(privCommit, years)
CallGeneratePrivateSchedules ==
  /\ schedPc = "args"
  /\ schedOut' = generatePrivateSchedules(schedArgs.privCommit, schedArgs.years)
  /\ schedPc' = "done"
  /\ UNCHANGED <<schedArgs, nonSchedVars>>

ScheduleNext == CallGeneratePrivateSchedules

ScheduleSpec == ScheduleInit /\ [][ScheduleNext]_vars

\* the sum of an array of numbers
RECURSIVE SumOf(_)
SumOf(arr) == IF arr = <<>> THEN Zero ELSE RAdd(arr[1], SumOf(Tail(arr)))

\* C11: calls has length years + 1; for an enabled commitment with
\* totalCommitment > 0 its first min(callYears, years + 1) entries each equal
\* totalCommitment / min(callYears, years + 1) and every later entry is 0;
\* when disabled or totalCommitment <= 0 both arrays are all zero.
C11_CallsAreLinear ==
  schedPc = "done" =>
    LET c == schedArgs.privCommit
        years == schedArgs.years
        n == IMin(c.callYears, years + 1)
    IN  /\ Len(schedOut.calls) = years + 1
        /\ IF c.enabled /\ RGt(c.totalCommitment, Zero)
           THEN \A i \in 0..years :
                  schedOut.calls[i + 1] =
                    IF i < n THEN RDiv(c.totalCommitment, R(n)) ELSE Zero
           ELSE /\ schedOut.calls = [i \in 1..(years + 1) |-> Zero]
                /\ schedOut.distributions = [i \in 1..(years + 1) |-> Zero]

\* 2,000,000 over 4 call years on a 10-year horizon: four calls of 500,000
C11_Witness ==
  /\ schedPc = "done"
  /\ schedArgs.years = 10
  /\ schedArgs.privCommit.enabled
  /\ schedArgs.privCommit.totalCommitment = R(2000000)
  /\ schedArgs.privCommit.callYears = 4
  /\ \A i \in 1..4 : schedOut.calls[i] = R(500000)
  /\ \A i \in 5..11 : schedOut.calls[i] = Zero

\* C12: distributions has length exactly years + 1, also when
\* distLagYears > years; its non-zero entries lie only at indices in
\* [distLagYears, min(distLagYears + distYears', years + 1)), distYears' =
\* max(1, min(distYears, years + 1 - distLagYears)), and all carry the same
\* amount.
C12_DistributionsInsideHorizon ==
  schedPc = "done" =>
    LET c == schedArgs.privCommit
        years == schedArgs.years
        distYears == IMax(1, IMin(c.distYears, years + 1 - c.distLagYears))
        last == IMin(c.distLagYears + distYears, years + 1)
    IN  /\ Len(schedOut.distributions) = years + 1
        /\ \A i \in 0..years :
             schedOut.distributions[i + 1] # Zero => (i >= c.distLagYears /\ i < last)
        /\ \A i, j \in 0..years :
             (schedOut.distributions[i + 1] # Zero /\ schedOut.distributions[j + 1] # Zero)
               => schedOut.distributions[i + 1] = schedOut.distributions[j + 1]

\* an enabled commitment whose distributions would start after the horizon
C12_Witness ==
  /\ schedPc = "done"
  /\ schedArgs.privCommit.enabled
  /\ RGt(schedArgs.privCommit.totalCommitment, Zero)
  /\ RGt(schedArgs.privCommit.distMultiple, Zero)
  /\ schedArgs.privCommit.distLagYears > schedArgs.years
  /\ Len(schedOut.distributions) = schedArgs.years + 1
  /\ RGt(SumOf(schedOut.calls), Zero)

\* C13 as stated: for every enabled commitment with totalCommitment > 0 and
\* every horizon, the distributions sum to distMultiple times the sum of the
\* calls, whatever callYears, distLagYears and distYears are.
C13_DistributionsAreMultipleOfCalls ==
  (/\ schedPc = "done"
   /\ schedArgs.privCommit.enabled
   /\ RGt(schedArgs.privCommit.totalCommitment, Zero))
  => SumOf(schedOut.distributions) =
       RMul(schedArgs.privCommit.distMultiple, SumOf(schedOut.calls))

\* C13 amended: for every enabled commitment with totalCommitment > 0 and
\* every horizon with distLagYears <= years, the distributions sum to
\* distMultiple times the sum of the calls, whatever callYears and distYears
\* are; with distLagYears > years the distributions sum to 0.
C13_DistributionsAreMultipleInsideHorizon ==
  (/\ schedPc = "done"
   /\ schedArgs.privCommit.enabled
   /\ RGt(schedArgs.privCommit.totalCommitment, Zero))
  => IF schedArgs.privCommit.distLagYears <= schedArgs.years
     THEN SumOf(schedOut.distributions) =
            RMul(schedArgs.privCommit.distMultiple, SumOf(schedOut.calls))
     ELSE SumOf(schedOut.distributions) = Zero

\* a commitment whose distribution years are cut to the horizon and whose
\* distributions still sum to the multiple of the capital called
C13_Witness ==
  /\ schedPc = "done"
  /\ schedArgs.privCommit.enabled
  /\ RGt(schedArgs.privCommit.totalCommitment, Zero)
  /\ RGt(schedArgs.privCommit.distMultiple, Zero)
  /\ schedArgs.privCommit.distLagYears <= schedArgs.years
  /\ schedArgs.privCommit.distYears > schedArgs.years + 1 - schedArgs.privCommit.distLagYears
  /\ RGt(SumOf(schedOut.distributions), Zero)

----------------------------------------------------------------------------
(* simulateMonteCarlo.  The three boxMuller() draws of a path are inputs:  *)
(* each path takes any triple of BoxMullerChoices.                         *)

MaxPaths == 3

BoxMullerChoices ==
  {<<R(-3), R(-3), R(-3)>>, <<Zero, Zero, Zero>>, <<R(2), R(-1), One>>}

quantiles == <<5, 25, 50, 75, 95>>

\* a few paths with volatile returns; many paths with no volatility, below,
\* at and above the ceiling of line 16
McScenarios ==
  {[BaseScenario EXCEPT !.deathAge = 60 + h, !.startWealth = we[1],
                        !.annualExpenseNow = we[2], !.numPaths = n] :
     h \in {1, MaxYears},
     we \in {<<R(1000), R(100)>>, <<R(1000), R(520)>>, <<R(1000), R(2000)>>,
             <<Zero, Zero>>},
     n \in 0..MaxPaths}
  \cup {[BaseScenario EXCEPT !.deathAge = 61, !.annualExpenseNow = R(2000),
                             !.assetVol = Triple(Zero, Zero, Zero), !.numPaths = n] :
          n \in {100, MAX_MONTE_CARLO_PATHS + 1}}

McInit ==
  /\ params \in McScenarios
  /\ mcPc = "start"
  /\ pathIdx = 0
  /\ paths = <<>>
  /\ rowCounts = <<>>
  /\ yearIdx = 0
  /\ bands = NoBands
  /\ ruinProbability = <<0, 1>>
  /\ SimIdle
  /\ TaxIdle
  /\ SchedIdle
  /\ RevIdle
  /\ ImportIdle
  /\ CallIdle
  /\ PageIdle

\* lines 333-339: the locals before the path loop
McStart ==
  /\ mcPc = "start"
  /\ mcPc' = "paths"
  /\ pathIdx' = 0
  /\ paths' = <<>>
  /\ rowCounts' = <<>>
  /\ UNCHANGED <<params, yearIdx, bands, ruinProbability, nonMcVars>>

\* lines 339-359: one iteration of the path loop
McPath ==
  /\ mcPc = "paths"
  /\ pathIdx < monteCarloPathCount(params)
  /\ \E z \in BoxMullerChoices :
       \E rs \in {monteCarloRows(params, z)} :
         /\ paths' = Append(paths, padTrajectory(wealthOf(rs), horizon(params) + 1))
         /\ rowCounts' = Append(rowCounts, Len(rs))
  /\ pathIdx' = pathIdx + 1
  /\ UNCHANGED <<params, mcPc, yearIdx, bands, ruinProbability, nonMcVars>>

\* lines 339 and 361-367: the path loop ends, the bands start empty
McPathsEnd ==
  /\ mcPc = "paths"
  /\ pathIdx >= monteCarloPathCount(params)
  /\ mcPc' = "bands"
  /\ bands' = NoBands
  /\ yearIdx' = 0
  /\ UNCHANGED <<params, pathIdx, paths, rowCounts, ruinProbability, nonMcVars>>

\* lines 369-377: one iteration of the band loop
McBandYear ==
  /\ mcPc = "bands"
  /\ yearIdx <= horizon(params)
  /\ \E values \in {yearValues(paths, yearIdx)} :
     \E ps \in {computePercentiles(values, quantiles)} :
       bands' = [q \in DOMAIN bands |->
                   Append(bands[q], RMax(Zero, ps[CHOOSE j \in 1..Len(quantiles) : quantiles[j] = q]))]
  /\ yearIdx' = yearIdx + 1
  /\ UNCHANGED <<params, mcPc, pathIdx, paths, rowCounts, ruinProbability, nonMcVars>>

\* lines 379-390: the ruin count and the return
McReturn ==
  /\ mcPc = "bands"
  /\ yearIdx > horizon(params)
  /\ ruinProbability' = IF monteCarloPathCount(params) = 0 THEN <<0, 1>>
                        ELSE <<countRuined(paths), monteCarloPathCount(params)>>
  /\ mcPc' = "done"
  /\ UNCHANGED <<params, pathIdx, paths, rowCounts, yearIdx, bands, nonMcVars>>

McNext == McStart \/ McPath \/ McPathsEnd \/ McBandYear \/ McReturn

McSpec == McInit /\ [][McNext]_vars

\* C14: simulateMonteCarlo returns min(numPaths, 2000) trajectories, and every
\* trajectory and every percentile band has years + 1 entries, ruined early
\* or not.
C14_PathCountAndLengths ==
  mcPc = "done" =>
    /\ Len(paths) = IMin(params.numPaths, 2000)
    /\ \A i \in 1..Len(paths) : Len(paths[i]) = horizon(params) + 1
    /\ \A q \in {5, 25, 50, 75, 95} : Len(bands[q]) = horizon(params) + 1

\* more paths configured than the ceiling, and paths that ruined early
C14_Witness ==
  /\ mcPc = "done"
  /\ params.numPaths > 2000
  /\ Len(paths) = 2000
  /\ \E i \in 1..Len(paths) : rowCounts[i] < Len(paths[i])

\* C15: ruinProbability is the number of generated trajectories with a value
\* <= 0 divided by the number of generated trajectories, is 0 when no path
\* is generated, and lies in [0, 1].
C15_RuinProbabilityIsRuinedShare ==
  mcPc = "done" =>
    \A ruined \in {Cardinality({i \in 1..Len(paths) :
                                  \E k \in 1..Len(paths[i]) : RLe(paths[i][k], Zero)})} :
      /\ Len(paths) = 0 => ruinProbability[1] = 0
      /\ ruinProbability[1] * Len(paths) = ruined * ruinProbability[2]
      /\ 0 <= ruinProbability[1]
      /\ ruinProbability[1] <= ruinProbability[2]
      /\ ruinProbability[2] > 0

\* some of the generated paths ruin and some do not
C15_Witness ==
  /\ mcPc = "done"
  /\ 0 < ruinProbability[1]
  /\ ruinProbability[1] < ruinProbability[2]

\* C16 as stated: every entry padded onto the trajectory of a path that ruined
\* early is the last wealth of that path, and that value is 0.
C16_PaddingIsZero ==
  \A i \in 1..Len(paths) :
    \A k \in (rowCounts[i] + 1)..Len(paths[i]) :
      /\ paths[i][k] = paths[i][rowCounts[i]]
      /\ paths[i][k] = Zero

\* C16: every entry padded onto the trajectory of a path that ruined early is
\* the last wealth of that path, and that value is at most 0.
C16_PaddingIsLastWealth ==
  \A i \in 1..Len(paths) :
    \A k \in (rowCounts[i] + 1)..Len(paths[i]) :
      /\ paths[i][k] = paths[i][rowCounts[i]]
      /\ RLe(paths[i][k], Zero)

\* a path that ruined early with a negative last wealth, padded
C16_Witness ==
  \E i \in 1..Len(paths) :
    /\ rowCounts[i] < Len(paths[i])
    /\ RLt(paths[i][rowCounts[i]], Zero)
    /\ paths[i][Len(paths[i])] = paths[i][rowCounts[i]]

\* C17: at every year and for every q of 5, 25, 50, 75, 95 the band value is
\* max(0, v) for the value v at position floor((q / 100) * (n - 1)) of that
\* year's n wealth values in ascending order, and 0 <= p5 <= p25 <= p50 <=
\* p75 <= p95.
C17_BandsArePercentiles ==
  \A y \in 1..Len(bands[5]) :
    \A col \in {[i \in 1..Len(paths) |-> paths[i][y]]} :
      /\ \A q \in {5, 25, 50, 75, 95} :
           Len(col) >= 1 =>
             \E i \in 1..Len(col) :
               /\ Cardinality({j \in 1..Len(col) : RLt(col[j], col[i])}) <= (q * (Len(col) - 1)) \div 100
               /\ Cardinality({j \in 1..Len(col) : RLe(col[j], col[i])}) > (q * (Len(col) - 1)) \div 100
               /\ bands[q][y] = RMax(Zero, col[i])
      /\ RLe(Zero, bands[5][y])
      /\ RLe(bands[5][y], bands[25][y])
      /\ RLe(bands[25][y], bands[50][y])
      /\ RLe(bands[50][y], bands[75][y])
      /\ RLe(bands[75][y], bands[95][y])

\* a year whose lowest band is floored from a negative wealth and whose
\* highest band lies above it
C17_Witness ==
  /\ mcPc = "done"
  /\ \E y \in 1..Len(bands[5]) :
       /\ bands[5][y] = Zero
       /\ RLt(bands[5][y], bands[95][y])
       /\ \E i \in 1..Len(paths) : RLt(paths[i][y], Zero)

----------------------------------------------------------------------------
(* calculateReverse: the binary search over startWealth.                   *)

TargetChoices == {Zero, R(358), R(359), R(100000), R(2000000000)}

LifetimeChoices == {Zero, R(500)}

\* zero spending with positive returns, and a spending household
RevScenarios ==
  {[BaseScenario EXCEPT !.deathAge = 60 + h, !.annualExpenseNow = e, !.assetReturn = r,
                        !.desiredTerminalWealth = t, !.lifetimeSpendingTotal = l] :
     h \in {1, MaxYears}, e \in {Zero, R(100000)}, r \in PositiveReturnChoices,
     t \in TargetChoices, l \in LifetimeChoices}

RevInit ==
  /\ params \in RevScenarios
  /\ revPc = "start"
  /\ low = Zero
  /\ high = Zero
  /\ bestGuess = Zero
  /\ bestResult = NoResult
  /\ iter = 0
  /\ runs = <<>>
  /\ reverseResult = NoReverseResult
  /\ SimIdle
  /\ TaxIdle
  /\ SchedIdle
  /\ McIdle
  /\ ImportIdle
  /\ CallIdle
  /\ PageIdle

\* lines 399-415: the locals and the search bounds
RevStart ==
  /\ revPc = "start"
  /\ low' = reverseLow(params)
  /\ high' = reverseHigh(params)
  /\ bestGuess' = Zero
  /\ bestResult' = NoResult
  /\ iter' = 0
  /\ revPc' = "loop"
  /\ UNCHANGED <<params, runs, reverseResult, nonRevVars>>

\* lines 417-444: one iteration of the binary search, with its break
RevIterate ==
  /\ revPc = "loop"
  /\ iter < maxIterations
  /\ \E guess \in {midpoint(low, high)} :
     \E result \in {testRun(params, guess)} :
     \E diff \in {terminalDiff(params, result)} :
       /\ runs' = Append(runs, guess)
       /\ bestGuess' = guess
       /\ bestResult' = result
       /\ IF withinTolerance(diff)
          THEN revPc' = "exit" /\ UNCHANGED <<low, high, iter>>
          ELSE /\ revPc' = "loop"
               /\ iter' = iter + 1
               /\ high' = IF tooMuch(diff) THEN guess ELSE high
               /\ low' = IF tooMuch(diff) THEN low ELSE guess
  /\ UNCHANGED <<params, reverseResult, nonRevVars>>

\* line 417: the loop condition fails
RevLoopEnd ==
  /\ revPc = "loop"
  /\ iter >= maxIterations
  /\ revPc' = "exit"
  /\ UNCHANGED <<params, low, high, bestGuess, bestResult, iter, runs, reverseResult, nonRevVars>>

\* lines 446-466: the fallback run and the return
RevReturn ==
  /\ revPc = "exit"
  /\ runs' = IF bestResult = NoResult THEN Append(runs, bestGuess) ELSE runs
  /\ reverseResult' = reverseRecord(bestGuess, fallbackResult(params, bestGuess, bestResult))
  /\ revPc' = "done"
  /\ UNCHANGED <<params, low, high, bestGuess, bestResult, iter, nonRevVars>>

RevNext == RevStart \/ RevIterate \/ RevLoopEnd \/ RevReturn

RevSpec == RevInit /\ [][RevNext]_vars

\* C18: calculateReverse terminates and returns after at most 50 runs of the
\* simulator; it returns before the 50th run only when the terminal wealth of
\* the current midpoint is within 1000 of desiredTerminalWealth, and otherwise
\* returns the last midpoint tried together with its result.
C18_ReverseStopsWithinFiftyRuns ==
  /\ Len(runs) <= 50
  /\ revPc \in {"start", "loop", "exit", "done"}
  /\ iter \in 0..50
  /\ revPc = "loop" => Len(runs) = iter
  /\ revPc = "done" =>
       /\ Len(runs) >= 1
       /\ reverseResult.requiredStartingWealth = runs[Len(runs)]
       /\ reverseResult.rows = simulateRows([params EXCEPT !.startWealth = runs[Len(runs)]])
       /\ reverseResult.calculatedTerminalWealth = reverseResult.rows[Len(reverseResult.rows)].wealth
       /\ Len(runs) < 50 =>
            RLt(RAbs(RSub(reverseResult.calculatedTerminalWealth, params.desiredTerminalWealth)), R(1000))

\* a search that used all 50 runs without reaching the tolerance
C18_Witness ==
  /\ revPc = "done"
  /\ Len(runs) = 50
  /\ RGe(RAbs(RSub(reverseResult.calculatedTerminalWealth, params.desiredTerminalWealth)), R(1000))

\* C19: of two scenarios with positive returns and zero spending that differ
\* only in desiredTerminalWealth, the one with the larger target gets a
\* requiredStartingWealth that is not smaller.
C19_LargerTargetNeedsNoLess ==
  (revPc = "done" /\ params.annualExpenseNow = Zero) =>
    \A t \in TargetChoices :
      RGt(t, params.desiredTerminalWealth) =>
        RGe(calculateReverse([params EXCEPT !.desiredTerminalWealth = t]).requiredStartingWealth,
            reverseResult.requiredStartingWealth)

\* the initial search interval as the claim states it
InitialLow ==
  IF RGt(params.lifetimeSpendingTotal, Zero)
  THEN RMax(Zero, RMul(Half, RAdd(params.lifetimeSpendingTotal, params.desiredTerminalWealth)))
  ELSE Zero

InitialHigh ==
  IF RGt(params.lifetimeSpendingTotal, Zero)
  THEN RMax(R(1000000000),
            RMul(R(2), RAdd(params.lifetimeSpendingTotal, params.desiredTerminalWealth)))
  ELSE R(1000000000)

\* the bounds of the search once it has started: inside the initial interval,
\* equal to it before the first iteration, and 2^iter times narrower after iter
\* non-converged iterations; every midpoint tried and the value returned lie
\* inside the initial interval
SearchInterval ==
  /\ revPc \in {"loop", "exit", "done"} =>
       /\ RLe(InitialLow, low) /\ RLe(low, high) /\ RLe(high, InitialHigh)
       /\ iter = 0 => (low = InitialLow /\ high = InitialHigh)
       /\ RMul(RSub(high, low), RPow(R(2), iter)) = RSub(InitialHigh, InitialLow)
       /\ \A k \in 1..Len(runs) : RLe(InitialLow, runs[k]) /\ RLe(runs[k], InitialHigh)
  /\ revPc = "done" =>
       /\ RLe(InitialLow, reverseResult.requiredStartingWealth)
       /\ RLe(reverseResult.requiredStartingWealth, InitialHigh)

\* one iteration: the guess is the midpoint of the bounds it started from, and
\* when the search goes on the guess replaces high if the terminal wealth of
\* its run is above the target, low otherwise
SearchIteration ==
  (revPc = "loop" /\ Len(runs') = Len(runs) + 1) =>
    /\ RAdd(runs'[Len(runs')], runs'[Len(runs')]) = RAdd(low, high)
    /\ RLe(low, runs'[Len(runs')]) /\ RLe(runs'[Len(runs')], high)
    /\ bestGuess' = runs'[Len(runs')]
    /\ revPc' = "loop" =>
         IF RGt(bestResult'.rows[Len(bestResult'.rows)].wealth, params.desiredTerminalWealth)
         THEN high' = runs'[Len(runs')] /\ low' = low
         ELSE low' = runs'[Len(runs')] /\ high' = high

\* C28: throughout calculateReverse's search low <= guess <= high with guess
\* the midpoint; the initial interval is [0, 1e9], or
\* [max(0, 0.5*(lifetimeSpendingTotal + desiredTerminalWealth)),
\*  max(1e9, 2*(lifetimeSpendingTotal + desiredTerminalWealth))] when
\* lifetimeSpendingTotal > 0; each non-converged iteration replaces high by the
\* guess when the terminal wealth is above the target and low by the guess
\* otherwise, halving the interval; so requiredStartingWealth lies inside the
\* initial interval.
C28_SearchStaysInsideInterval == []SearchInterval /\ [][SearchIteration]_vars

\* a finished search with lifetimeSpendingTotal > 0 and a target so large that
\* the upper bound was raised above 1e9, in which both bounds were replaced
C28_Witness ==
  /\ revPc = "done"
  /\ RGt(params.lifetimeSpendingTotal, Zero)
  /\ RGt(InitialHigh, R(1000000000))
  /\ RGt(InitialLow, Zero)
  /\ RGt(low, InitialLow)
  /\ RLt(high, InitialHigh)
  /\ Len(runs) >= 3

----------------------------------------------------------------------------
(* src/store/useParamsStore.ts: importFromJson.  A payload is a text that   *)
(* JSON.parse either rejects or turns into an object.  In the object every *)
(* numeric field is a JSON number, a field may hold a string in place of a *)
(* number (JsonText), and a key may be absent (Hole).  The store starts    *)
(* with the parameters it was constructed with.                            *)

JsonText == <<3, 0, <<>>>>

\* a JSON string with the given text
JsonString(s) == <<3, 0, <<>>, s>>

\* z.string(), z.enum([...]): the value is a string
jsonString(v) == v[1] = 3 /\ Len(v) = 4

\* the text of a JSON string
textOf(v) == v[4]

\* z.number()
jsonNumber(v) == v[1] \in {-1, 0, 1}

\* z.number().int()
jsonInt(v) == jsonNumber(v) /\ v[2] = 0

\* the integer a JSON integer stands for
RECURSIVE IntOfMag(_)

IntOfMag(mag) == IF mag = <<>> THEN 0 ELSE mag[1] + B * IntOfMag(Tail(mag))

IntOf(v) == v[1] * IntOfMag(v[3])

\* JSON.stringify on Params, read back by JSON.parse: integers become JSON numbers
JsonOf(p) ==
  [p EXCEPT !.calculationMode = JsonString(@),
            !.currentAge = R(@), !.deathAge = R(@), !.numPaths = R(@),
            !.privCommit.callYears = R(@), !.privCommit.distLagYears = R(@),
            !.privCommit.distYears = R(@),
            !.oneOffs = [i \in 1..Len(@) |->
                           [@[i] EXCEPT !.id = JsonString(@), !.year = R(@)]]]

\* .default(d)
withDefault(v, d) == IF v = Hole THEN d ELSE v

\* the types paramsSchema asks of the fields that hold integers or defaults
schemaTypes(j) ==
  /\ jsonString(withDefault(j.calculationMode, JsonString("forward")))
  /\ jsonInt(j.currentAge)
  /\ jsonInt(j.deathAge)
  /\ jsonInt(j.numPaths)
  /\ jsonInt(j.privCommit.callYears)
  /\ jsonInt(j.privCommit.distLagYears)
  /\ jsonInt(j.privCommit.distYears)
  /\ jsonNumber(j.privCommit.totalCommitment)
  /\ jsonNumber(withDefault(j.desiredTerminalWealth, Zero))
  /\ jsonNumber(withDefault(j.lifetimeSpendingTotal, Zero))
  /\ \A i \in 1..Len(j.oneOffs) :
       /\ jsonString(j.oneOffs[i].id)
       /\ jsonInt(j.oneOffs[i].year)
       /\ jsonNumber(j.oneOffs[i].amount)

\* result.data: the parsed object with the defaults filled in; the id of an
\* event is left as parsed, for importFromJson to read
schemaData(j) ==
  [j EXCEPT !.calculationMode = textOf(withDefault(@, JsonString("forward"))),
            !.currentAge = IntOf(@), !.deathAge = IntOf(@), !.numPaths = IntOf(@),
            !.privCommit.callYears = IntOf(@), !.privCommit.distLagYears = IntOf(@),
            !.privCommit.distYears = IntOf(@),
            !.desiredTerminalWealth = withDefault(@, Zero),
            !.lifetimeSpendingTotal = withDefault(@, Zero),
            !.oneOffs = [i \in 1..Len(@) |-> [@[i] EXCEPT !.year = IntOf(@)]]]

\* paramsSchema.safeParse(parsed).success
safeParse(j) == schemaTypes(j) /\ paramsSchema(schemaData(j))

\* line 21: Math.random().toString(36).slice(2, 10) is a text of up to eight
\* of the characters 0-9a-z; it is empty when Math.random() returns 0, and
\* nothing keeps two calls from returning the same text
makeIdChoices == {"", "k3", "x9f2m1qa"}

\* line 119: { ...event, id: event.id ?? makeId() }
importedEvent(event, fresh) ==
  [event EXCEPT !.id = textOf(orElse(@, JsonString(fresh)))]

\* lines 117-120: the params object importFromJson sets
importedParams(data, fresh) ==
  [data EXCEPT !.oneOffs = [i \in 1..Len(@) |-> importedEvent(@[i], fresh[i])]]

AgeChoices ==
  {<<R(60), R(62)>>, <<R(60), R(60)>>, <<R(70), R(60)>>, <<R(121), R(125)>>,
   <<R(-1), R(50)>>, <<R(60), R(131)>>, <<Q(121, 2), R(62)>>}

NumPathsChoices == {R(99), R(100), R(2000), R(2001), Q(201, 2), JsonText, Hole}

ImportPayloads ==
  {NoPayload}
  \cup {[wellFormed |-> TRUE,
         value |-> [JsonOf(BaseScenario) EXCEPT !.startWealth = R(2000),
                                              !.currentAge = a[1], !.deathAge = a[2],
                                              !.numPaths = n,
                                              !.privCommit.totalCommitment = c,
                                              !.desiredTerminalWealth = t]] :
          a \in AgeChoices, n \in NumPathsChoices, c \in {Zero, R(400), R(-1)},
          t \in {Zero, R(5), R(-5), Hole}}

ImportInit ==
  /\ params = BaseScenario
  /\ payload \in ImportPayloads
  /\ impPc = "start"
  /\ importResult = NoImportResult
  /\ SimIdle
  /\ TaxIdle
  /\ SchedIdle
  /\ McIdle
  /\ RevIdle
  /\ CallIdle
  /\ PageIdle

\* line 111: JSON.parse(payload), which throws on a malformed text
ImportParse ==
  /\ impPc = "start"
  /\ impPc' = IF payload.wellFormed THEN "parsed" ELSE "catch"
  /\ UNCHANGED <<params, payload, importResult, nonImpVars>>

\* lines 112-115: the schema refuses the object
ImportReject ==
  /\ impPc = "parsed"
  /\ ~safeParse(payload.value)
  /\ importResult' = [success |-> FALSE]
  /\ impPc' = "done"
  /\ UNCHANGED <<params, payload, nonImpVars>>

\* lines 112 and 116-122: the schema accepts the object and it is stored
ImportStore ==
  /\ impPc = "parsed"
  /\ safeParse(payload.value)
  /\ \E fresh \in [1..Len(payload.value.oneOffs) -> makeIdChoices] :
       params' = importedParams(schemaData(payload.value), fresh)
  /\ importResult' = [success |-> TRUE]
  /\ impPc' = "done"
  /\ UNCHANGED <<payload, nonImpVars>>

\* lines 123-128: the catch block
ImportCatch ==
  /\ impPc = "catch"
  /\ importResult' = [success |-> FALSE]
  /\ impPc' = "done"
  /\ UNCHANGED <<params, payload, nonImpVars>>

ImportNext == ImportParse \/ ImportReject \/ ImportStore \/ ImportCatch

ImportSpec == ImportInit /\ [][ImportNext]_vars

\* C20: importFromJson returns success false and leaves the stored params
\* unchanged for every payload that is malformed, has numPaths outside
\* [100, 2000], has currentAge >= deathAge, or has a negative totalCommitment.
C20_ImportRejectsOutOfRange ==
  (/\ impPc = "done"
   /\ \/ ~payload.wellFormed
      \/ ~jsonInt(payload.value.numPaths)
      \/ RLt(payload.value.numPaths, R(100))
      \/ RGt(payload.value.numPaths, R(2000))
      \/ ~jsonNumber(payload.value.privCommit.totalCommitment)
      \/ RLt(payload.value.privCommit.totalCommitment, Zero)
      \/ RGe(payload.value.currentAge, payload.value.deathAge))
  => (importResult.success = FALSE /\ params = BaseScenario)

----------------------------------------------------------------------------
(* src/store/useParamsStore.ts and src/app/page.tsx: the store of the      *)
(* parameters, the form handlers that call it, the debounce hook and the   *)
(* effect that hands the debounced parameters to the engine.  Every `set`  *)
(* of the store makes a new params object; version counts them and stands  *)
(* for the identity of the object.                                         *)

\* most store operations in one run
MaxOps == 2

\* most one-off events the events table is filled with
MaxEvents == 2

\* milliseconds the clock advances in one step
TickMs == 75

\* page.tsx line 56: useDebouncedValue(params, 150)
delay == 150

\* { ...a, ...b }
spread(a, b) ==
  [k \in (DOMAIN a) \cup (DOMAIN b) |-> IF k \in DOMAIN b THEN b[k] ELSE a[k]]

\* patch[k] ?? {}
orEmpty(patch, k) == IF k \in DOMAIN patch THEN patch[k] ELSE <<>>

nestedKeys ==
  {"guardrails", "assetAlloc", "assetReturn", "assetVol", "privCommit",
   "holdingCompanyStructure"}

\* lines 23-51
mergeParams(base, patch) ==
  [k \in (DOMAIN base) \cup (DOMAIN patch) \cup nestedKeys \cup {"oneOffs"} |->
     IF k \in nestedKeys THEN spread(base[k], orEmpty(patch, k))
     ELSE IF k = "oneOffs"
       THEN (IF k \in DOMAIN patch THEN patch[k] ELSE base[k])
     ELSE IF k \in DOMAIN patch THEN patch[k] ELSE base[k]]

\* the store's DEFAULT_PARAMS
DEFAULT_PARAMS == BaseScenario

\* SEED_PRESETS of src/lib/defaults.ts: a list of { id, label, patch }
SEED_PRESETS ==
  <<[id |-> "spender",
     patch |-> [spendingRule |-> "%wealth", spendPctWealth |-> Q(1, 20)]]>>

\* lines 62-65
setParam(state, key, value) == mergeParams(state, [k \in {key} |-> value])

\* lines 66-69
updateParams(state, patch) == mergeParams(state, patch)

\* line 71: SEED_PRESETS.find((item) => item.id === id), as a set of at most one
findPreset(id) ==
  {SEED_PRESETS[i] : i \in {i \in 1..Len(SEED_PRESETS) :
                              /\ SEED_PRESETS[i].id = id
                              /\ \A j \in 1..(i - 1) : SEED_PRESETS[j].id # id}}

\* line 77
reset == [DEFAULT_PARAMS EXCEPT !.oneOffs = [i \in 1..Len(@) |-> @[i]]]

\* lines 78-92
addOneOff(state, sign, id) ==
  [state EXCEPT !.oneOffs =
     Append(@, [id |-> id, year |-> 0, amount |-> RMul(R(sign), R(10000)),
                label |-> IF sign = 1 THEN "Inflow" ELSE "Outflow"])]

\* lines 93-101
updateOneOff(state, id, patch) ==
  [state EXCEPT !.oneOffs =
     [i \in 1..Len(@) |-> IF @[i].id = id THEN spread(@[i], patch) ELSE @[i]]]

\* lines 102-108
removeOneOff(state, id) ==
  [state EXCEPT !.oneOffs = SelectSeq(@, LAMBDA event : event.id # id)]

\* line 130: exportToJson, as JSON.parse reads it back
exportToJson(state) == [wellFormed |-> TRUE, value |-> JsonOf(state)]

\* lines 136-147: the merge of the persisted state into the new store
merge(persisted, currentParams) ==
  IF "params" \in DOMAIN persisted
    THEN mergeParams(DEFAULT_PARAMS, persisted.params)
    ELSE currentParams

\* what the handlers of params-form.tsx hand to setParam: a NumberField
\* passes on any finite number that is typed, a Switch or Button its value
SetParamChoices ==
  {<<"startWealth", R(2000)>>, <<"startWealth", R(-5)>>,
   <<"runMonteCarlo", TRUE>>, <<"calculationMode", "reverse">>}

\* what the guardrails fields hand to updateParams
UpdateParamsChoices(state) ==
  {[guardrails |-> [state.guardrails EXCEPT !.minChange = Q(-1, 10)]]}

PresetIdChoices == {"spender", "unknown"}

\* what the fields of events-table.tsx hand to updateOneOff
EventPatchChoices == {[year |-> 1], [amount |-> R(-500)]}

\* the ids of the events the table shows
eventIds(state) == {state.oneOffs[i].id : i \in 1..Len(state.oneOffs)}

\* what localStorage holds under "whealthy-params" when the store is made:
\* nothing, or the params an earlier version of the page wrote
PersistedChoices ==
  {<<>>,
   [params |-> [startWealth |-> R(3000), guardrails |-> [minChange |-> Q(-1, 10)]]]}

\* the files handed to importFromJson besides the page's own export
MissingIdPayload ==
  [wellFormed |-> TRUE,
   value |-> [JsonOf(DEFAULT_PARAMS) EXCEPT
                !.oneOffs = <<[id |-> Hole, year |-> R(1), amount |-> R(500)]>>]]

DuplicateIdPayload ==
  [wellFormed |-> TRUE,
   value |-> [JsonOf(DEFAULT_PARAMS) EXCEPT
                !.oneOffs = <<[id |-> JsonString("a"), year |-> R(0), amount |-> R(500)],
                              [id |-> JsonString("a"), year |-> R(1), amount |-> R(-200)]>>]]

ImportChoices(state) ==
  {[kind |-> "exported", text |-> exportToJson(state)],
   [kind |-> "missingId", text |-> MissingIdPayload],
   [kind |-> "duplicateId", text |-> DuplicateIdPayload],
   [kind |-> "malformed", text |-> NoPayload]}

\* types.ts lines 208-210: window.setTimeout(() => setDebounced(value), delay)
setTimeout(pending, v, value) ==
  pending \cup {[version |-> v, value |-> value, waited |-> 0]}

clearTimeoutForgotten(pending, v) == pending

\* types.ts line 211: window.clearTimeout(handle), the handle of the value v
clearTimeout(pending, v) == {t \in pending : t.version # v}

\* page.tsx lines 63-64: the record the effect hands to the engine
targetParams(debouncedParams) ==
  [debouncedParams EXCEPT !.assetAlloc = normalizeAllocation(@)]

\* page.tsx lines 59-94: a run of the effect, as the debouncedParams it ran
\* on, the engine function it called on targetParams(debouncedParams), and
\* whether it called simulateMonteCarlo on them as well
pageEffect(debouncedParams) ==
  IF debouncedParams.calculationMode = "reverse"
    THEN [fn |-> "calculateReverse", debouncedParams |-> debouncedParams,
          monteCarlo |-> FALSE]
    ELSE [fn |-> "simulateDeterministic", debouncedParams |-> debouncedParams,
          monteCarlo |-> debouncedParams.runMonteCarlo]

Op(name, before, success, kind) ==
  [name |-> name, before |-> before, success |-> success, kind |-> kind]

PageInit ==
  /\ params = DEFAULT_PARAMS
  /\ pagePc = "created"
  /\ version = 0
  /\ opCount = 0
  /\ lastOp = NoOp
  /\ debounced = [version |-> 0]
  /\ timers = {}
  /\ sinceChange = 0
  /\ simInput = NoSimInput
  /\ handed = {}
  /\ replacedEarly = {}
  /\ SimIdle
  /\ TaxIdle
  /\ SchedIdle
  /\ McIdle
  /\ RevIdle
  /\ ImportIdle
  /\ CallIdle

\* useParamsStore.ts lines 132-148: persist reads localStorage when the store
\* is made, before the page renders
Rehydrate ==
  /\ pagePc = "created"
  /\ \E persisted \in PersistedChoices : params' = merge(persisted, params)
  /\ pagePc' = "ready"
  /\ UNCHANGED <<version, opCount, lastOp, debounced, timers, sinceChange,
                 simInput, handed, replacedEarly, nonPageVars>>

\* the first render of PlannerPage: useState(value) of the hook, its effect
\* (types.ts lines 205-212) and the page's effect (page.tsx lines 59-94)
Mount ==
  /\ pagePc = "ready"
  /\ pagePc' = "mounted"
  /\ debounced' = [version |-> version, value |-> params]
  /\ timers' = setTimeout(timers, version, params)
  /\ sinceChange' = 0
  /\ simInput' = pageEffect(params)
  /\ handed' = handed \cup {version}
  /\ UNCHANGED <<params, version, opCount, lastOp, replacedEarly, nonPageVars>>

\* set(...) of the store with a new params object, the render it causes and
\* the hook's effect on the changed value: cleanup, then a new timer
StoreSet(newParams, op) ==
  /\ pagePc = "mounted"
  /\ opCount < MaxOps
  /\ params' = newParams
  /\ version' = version + 1
  /\ opCount' = opCount + 1
  /\ lastOp' = op
  /\ timers' = setTimeout(clearTimeout(timers, version), version + 1, newParams)
  /\ replacedEarly' = IF sinceChange < delay THEN replacedEarly \cup {version}
                                             ELSE replacedEarly
  /\ sinceChange' = 0
  /\ UNCHANGED <<pagePc, debounced, simInput, handed, nonPageVars>>

\* a store operation that returns without calling set
StoreKeep(op) ==
  /\ pagePc = "mounted"
  /\ opCount < MaxOps
  /\ opCount' = opCount + 1
  /\ lastOp' = op
  /\ UNCHANGED <<params, pagePc, version, debounced, timers, sinceChange,
                 simInput, handed, replacedEarly, nonPageVars>>

SetParam ==
  /\ pagePc = "mounted"
  /\ \E c \in SetParamChoices :
       StoreSet(setParam(params, c[1], c[2]), Op("setParam", params, TRUE, c[1]))

UpdateParams ==
  \E patch \in UpdateParamsChoices(params) :
    StoreSet(updateParams(params, patch), Op("updateParams", params, TRUE, "guardrails"))

\* lines 70-76
ApplyPreset ==
  \E id \in PresetIdChoices :
    IF findPreset(id) = {}
      THEN StoreKeep(Op("applyPreset", params, FALSE, id))
      ELSE \E preset \in findPreset(id) :
             StoreSet(mergeParams(params, preset.patch),
                      Op("applyPreset", params, TRUE, id))

Reset ==
  /\ pagePc = "mounted"
  /\ StoreSet(reset, Op("reset", params, TRUE, ""))

AddOneOff ==
  /\ Len(params.oneOffs) < MaxEvents
  /\ \E sign \in {1, -1}, id \in makeIdChoices :
       StoreSet(addOneOff(params, sign, id), Op("addOneOff", params, TRUE, id))

UpdateOneOff ==
  \E id \in eventIds(params), patch \in EventPatchChoices :
    StoreSet(updateOneOff(params, id, patch), Op("updateOneOff", params, TRUE, id))

RemoveOneOff ==
  \E id \in eventIds(params) :
    StoreSet(removeOneOff(params, id), Op("removeOneOff", params, TRUE, id))

\* lines 109-129
ImportFromJson ==
  \E file \in ImportChoices(params) :
    IF file.text.wellFormed /\ safeParse(file.text.value)
      THEN \E fresh \in [1..Len(file.text.value.oneOffs) -> makeIdChoices] :
             StoreSet(importedParams(schemaData(file.text.value), fresh),
                      Op("importFromJson", params, TRUE, file.kind))
      ELSE StoreKeep(Op("importFromJson", params, FALSE, file.kind))

\* time passes
Tick ==
  /\ pagePc = "mounted"
  /\ sinceChange < delay \/ \E t \in timers : t.waited < delay
  /\ sinceChange' = IMin(sinceChange + TickMs, delay)
  /\ timers' = {[t EXCEPT !.waited = IMin(@ + TickMs, delay)] : t \in timers}
  /\ UNCHANGED <<params, pagePc, version, opCount, lastOp, debounced, simInput,
                 handed, replacedEarly, nonPageVars>>

\* types.ts line 209: a timer that has waited the delay runs setDebounced(value);
\* a new value renders the page again and its effect calls the engine
TimerFire ==
  /\ pagePc = "mounted"
  /\ \E t \in timers :
       /\ t.waited >= delay
       /\ timers' = timers \ {t}
       /\ IF t.version = debounced.version
            THEN UNCHANGED <<debounced, simInput, handed>>
            ELSE /\ debounced' = [version |-> t.version, value |-> t.value]
                 /\ simInput' = pageEffect(t.value)
                 /\ handed' = handed \cup {t.version}
  /\ UNCHANGED <<params, pagePc, version, opCount, lastOp, sinceChange,
                 replacedEarly, nonPageVars>>

PageNext ==
  \/ Rehydrate
  \/ Mount
  \/ SetParam
  \/ UpdateParams
  \/ ApplyPreset
  \/ Reset
  \/ AddOneOff
  \/ UpdateOneOff
  \/ RemoveOneOff
  \/ ImportFromJson
  \/ Tick
  \/ TimerFire

PageSpec == PageInit /\ [][PageNext]_vars

\* C21: the record the page hands to simulateDeterministic, simulateMonteCarlo
\* or calculateReverse satisfies paramsSchema, whatever store operations came
\* before.
C21_EngineInputSatisfiesSchema ==
  simInput.fn # "none" => paramsSchema(targetParams(simInput.debouncedParams))

\* C22: when importFromJson is given a scenario in which a one-off event has
\* no id, the import succeeds and the event is stored with a generated,
\* non-empty id.
C22_ImportAssignsMissingId ==
  (lastOp.name = "importFromJson" /\ lastOp.kind = "missingId")
  => /\ lastOp.success
     /\ Len(params.oneOffs) = Len(MissingIdPayload.value.oneOffs)
     /\ \A i \in 1..Len(params.oneOffs) : params.oneOffs[i].id # ""

\* C23: after any sequence of addOneOff, updateOneOff, removeOneOff,
\* importFromJson and reset, no two events of params.oneOffs have the same id.
C23_EventIdsAreUnique ==
  \A i, j \in 1..Len(params.oneOffs) :
    i # j => params.oneOffs[i].id # params.oneOffs[j].id

\* C24: in every state of the store, importFromJson(exportToJson()) returns
\* success and leaves params equal to what they were before the call.
C24_ExportImportRoundTrips ==
  (lastOp.name = "importFromJson" /\ lastOp.kind = "exported")
  => (lastOp.success /\ params = lastOp.before)

----------------------------------------------------------------------------
(* useDebouncedValue under changing params.  The hook sees only that the   *)
(* store has set a new params object, so setParam and reset stand for the  *)
(* store's operations.  The store is made, React mounts the page, time     *)
(* passes and the browser runs a timer that is due: these steps are fair.  *)

DebounceNext == Rehydrate \/ Mount \/ SetParam \/ Reset \/ Tick \/ TimerFire

DebounceSpec ==
  /\ PageInit
  /\ [][DebounceNext]_vars
  /\ WF_vars(Rehydrate)
  /\ WF_vars(Mount)
  /\ WF_vars(Tick)
  /\ WF_vars(TimerFire)

\* the debounced value changes only to the params that are the hook's input
\* and have been so for the whole delay
DebouncedChangesToSettledInput ==
  [][(pagePc = "mounted" /\ debounced' # debounced)
       => /\ debounced'.version = version
          /\ debounced'.value = params
          /\ sinceChange >= delay]_vars

\* once the input stops changing, the debounced value, and with it the params
\* handed to the engine, is the latest input
DebouncedCatchesUp ==
  <>[](/\ pagePc = "mounted"
       /\ debounced = [version |-> version, value |-> params]
       /\ simInput = pageEffect(params))

\* C30 as stated: useDebouncedValue cancels its pending timer on every change
\* of the input and starts a new one, so the debounced value only changes to a
\* value that stayed the input for the whole delay, no params replaced within
\* the delay are handed to the engine, and once the input stops changing the
\* debounced value eventually equals the latest input.
C30_ReplacedValueNeverSimulated ==
  /\ DebouncedChangesToSettledInput
  /\ [](handed \cap replacedEarly = {})
  /\ DebouncedCatchesUp

\* C30 as amended: the same, except that the params present when the page
\* mounts are handed to the engine at once, also when they are replaced
\* within the delay.
C30_ReplacedValueSimulatedOnlyAtMount ==
  /\ DebouncedChangesToSettledInput
  /\ [](handed \cap replacedEarly \subseteq {0})
  /\ DebouncedCatchesUp

\* params set after the mount were replaced within the delay and never handed
\* to the engine, and the debounced value has caught up with the latest input
C30_Witness ==
  /\ \E v \in replacedEarly : v >= 1 /\ v \notin handed
  /\ debounced = [version |-> version, value |-> params]
  /\ version \in handed

----------------------------------------------------------------------------
(* normalizeAllocation on JavaScript numbers.  A number is an IEEE-754      *)
(* binary64 value: a sum or a quotient is the exact result rounded to 53   *)
(* significant bits, ties to even.  The weights are non-negative and far   *)
(* from the overflow and underflow thresholds, so a number is <<m, e>>,    *)
(* the value m * 2^e with m an integer, 2^52 <= m < 2^53, or <<Zero, 0>>.  *)
(* The page normalizes the weights, simulateMonteCarlo normalizes what it  *)
(* is handed, and so does simulateDeterministic.                           *)

\* 2^n for n >= 0
RECURSIVE pow2(_)
pow2(n) == IF n < 25 THEN R(2^n) ELSE RMul(pow2(n - 25), R(2^25))

\* the number 0
zero64 == <<Zero, 0>>

\* the number of bits of an integer n > 0
bitLength(n) ==
  CHOOSE L \in (14 * (Len(n[3]) - 1) + 1)..(15 * Len(n[3])) :
    RLe(pow2(L - 1), n) /\ RLt(n, pow2(L))

\* one bit of a long division: st is <<remainder, divisor * 2^i, quotient>>
\* after the bit of weight 2^i, half the divisor times 2^(i-1)
divStep(st, half) ==
  IF RLe(half, st[1])
  THEN <<RSub(st[1], half), half, RAdd(RAdd(st[3], st[3]), One)>>
  ELSE <<st[1], half, RAdd(st[3], st[3])>>

\* n >= 1 further bits of a long division: the first half of them, then the
\* rest
RECURSIVE divBits(_, _)
divBits(st, n) ==
  IF n = 1 THEN divStep(st, RMul(st[2], Half))
  ELSE the({divBits(mid, n - n \div 2) : mid \in {divBits(st, n \div 2)}})

\* <<quotient, remainder>> of the integers n >= 0 and d > 0 with n < d * 2^56,
\* by 56 bits
floorDivide(n, d) ==
  the({<<st[3], st[1]>> :
         st \in {the({divBits(start, 56) : start \in {<<n, RMul(d, pow2(56)), Zero>>}})}})

\* <<q, e>> or the next number above it, for the quotient q and remainder
\* qr[2] of a division by unit: round to nearest, ties to even
roundUp(qr, unit, e) ==
  IF RCmp(RAdd(qr[2], qr[2]), unit) > 0
     \/ (RCmp(RAdd(qr[2], qr[2]), unit) = 0 /\ qr[1][3][1] % 2 = 1)
  THEN IF RAdd(qr[1], One) = pow2(53) THEN <<pow2(52), e + 1>>
       ELSE <<RAdd(qr[1], One), e>>
  ELSE <<qr[1], e>>

\* the binary64 number nearest to n * 2^e for an integer n > 0 of L bits
roundAt(n, e, L) ==
  IF L <= 53 THEN <<RMul(n, pow2(53 - L)), e - (53 - L)>>
  ELSE the({roundUp(qr, pow2(L - 53), e + (L - 53)) :
              qr \in {floorDivide(n, pow2(L - 53))}})

\* the binary64 number nearest to n * 2^e for an integer n >= 0
roundToEven(n, e) ==
  IF n = Zero THEN zero64 ELSE the({roundAt(n, e, L) : L \in {bitLength(n)}})

\* the binary64 number of a small integer
fromInt(n) == roundToEven(R(n), 0)

\* x + y
add(x, y) ==
  IF x = zero64 THEN y
  ELSE IF y = zero64 THEN x
  ELSE roundToEven(RAdd(RMul(x[1], pow2(x[2] - IMin(x[2], y[2]))),
                        RMul(y[1], pow2(y[2] - IMin(x[2], y[2])))),
                   IMin(x[2], y[2]))

\* x / y for y > 0: the quotient of the significands to 56 bits, with one more
\* bit that tells whether anything remains
divide(x, y) ==
  IF x = zero64 THEN zero64
  ELSE the({roundToEven(RAdd(RAdd(qr[1], qr[1]), IF qr[2] = Zero THEN Zero ELSE One),
                        x[2] - y[2] - 56) :
              qr \in {floorDivide(RMul(x[1], pow2(55)), y[1])}})

\* the weights of alloc divided by total
dividedBy(alloc, total) ==
  IF total = zero64 THEN alloc
  ELSE Triple(divide(alloc.public, total), divide(alloc.private, total),
              divide(alloc.cash, total))

\* normalizeAllocation with the cash weight left out of the total
normalizeAllocationBinary64NoCash(alloc) ==
  the({dividedBy(alloc, total) : total \in {add(alloc.public, alloc.private)}})

\* normalizeAllocation on binary64 numbers
normalizeAllocationBinary64(alloc) ==
  the({dividedBy(alloc, total) :
         total \in {the({add(sum, alloc.cash) : sum \in {add(alloc.public, alloc.private)}})}})

\* the weights a user can enter: 0, the fraction 0.3 and the percentages 10,
\* 30 and 60
WeightChoices ==
  {zero64, divide(fromInt(3), fromInt(10)), fromInt(10), fromInt(30), fromInt(60)}

NormalizeInit ==
  /\ params = BaseScenario
  /\ callArgs \in {Triple(a, b, c) : a, b, c \in WeightChoices}
  /\ callPc = "page"
  /\ callOut = <<>>
  /\ SimIdle
  /\ TaxIdle
  /\ SchedIdle
  /\ McIdle
  /\ RevIdle
  /\ ImportIdle
  /\ PageIdle

\* page.tsx line 63: the page normalizes the weights of the debounced params
NormalizeInPage ==
  /\ callPc = "page"
  /\ callOut' = <<normalizeAllocationBinary64(callArgs)>>
  /\ callPc' = "targetParams"
  /\ UNCHANGED <<callArgs, nonCallVars>>

\* simulation.ts line 333: simulateMonteCarlo normalizes the weights of the
\* params the page hands it
NormalizeInMonteCarlo ==
  /\ callPc = "targetParams"
  /\ callOut' = Append(callOut, normalizeAllocationBinary64(callOut[Len(callOut)]))
  /\ callPc' = "simulateMonteCarlo"
  /\ UNCHANGED <<callArgs, nonCallVars>>

\* simulation.ts line 197: simulateDeterministic normalizes the weights of
\* the params it is handed, by the page or by simulateMonteCarlo
NormalizeInDeterministic ==
  /\ callPc \in {"targetParams", "simulateMonteCarlo"}
  /\ callOut' = Append(callOut, normalizeAllocationBinary64(callOut[Len(callOut)]))
  /\ callPc' = "simulateDeterministic"
  /\ UNCHANGED <<callArgs, nonCallVars>>

NormalizeNext == NormalizeInPage \/ NormalizeInMonteCarlo \/ NormalizeInDeterministic

NormalizeSpec == NormalizeInit /\ [][NormalizeNext]_vars

\* Exact values n * 2^e, n any integer >= 0, to state the properties with.
\* the integers of x and y at their smaller exponent
Aligned(x, y) ==
  the({<<RMul(x[1], px), RMul(y[1], py)>> :
         px \in {pow2(x[2] - IMin(x[2], y[2]))}, py \in {pow2(y[2] - IMin(x[2], y[2]))}})

ExactEqual(x, y) == \E p \in {Aligned(x, y)} : RCmp(p[1], p[2]) = 0

ExactSum(x, y) == the({<<RAdd(p[1], p[2]), IMin(x[2], y[2])>> : p \in {Aligned(x, y)}})

ExactProduct(x, y) == <<RMul(x[1], y[1]), x[2] + y[2]>>

\* the exact sum of three weights
ExactTotal(alloc) ==
  the({ExactSum(sum, alloc.cash) : sum \in {ExactSum(alloc.public, alloc.private)}})

\* x and y differ by at most y / 2^50
WithinRounding(x, y) ==
  \E p \in {Aligned(x, y)} :
    \E d \in {RAbs(RSub(p[1], p[2]))} : RLe(RMul(RMul(d, R(2^25)), R(2^25)), p[2])

\* out is alloc rescaled to sum to 1, each weight within 1 / 2^50 of its
\* value: out's weight times alloc's exact total is alloc's weight
RescaledWithinRounding(out, alloc) ==
  \E total \in {ExactTotal(alloc)} :
    /\ \E part \in {ExactProduct(out.public, total)} : WithinRounding(part, alloc.public)
    /\ \E part \in {ExactProduct(out.private, total)} : WithinRounding(part, alloc.private)
    /\ \E part \in {ExactProduct(out.cash, total)} : WithinRounding(part, alloc.cash)

\* each weight of a is within b's weight / 2^50 of b's weight
AllocWithinRounding(a, b) ==
  /\ WithinRounding(a.public, b.public)
  /\ WithinRounding(a.private, b.private)
  /\ WithinRounding(a.cash, b.cash)

\* C26 as stated: the allocation the engine uses is the input triple rescaled
\* to sum to 1 (the unchanged input when its sum is 0), and normalizeAllocation
\* is idempotent: the repeated normalization by the page, simulateMonteCarlo
\* and simulateDeterministic gives the same allocation as normalizing once.
C26_NormalizationIsIdempotent ==
  \A k \in 1..Len(callOut) :
    /\ callOut[k] = callOut[1]
    /\ IF ExactTotal(callArgs)[1] = Zero THEN callOut[k] = callArgs
       ELSE RescaledWithinRounding(callOut[k], callArgs)

\* C26 as amended: the same up to floating-point rounding.  The allocation the
\* engine uses is the input triple rescaled to sum to 1 with a relative error
\* of at most 2^-50 per weight (the unchanged input when its sum is 0), and
\* the repeated normalization changes each weight of the once normalized
\* allocation by at most 2^-50 of its value.
C26_NormalizationIsIdempotentUpToRounding ==
  \A k \in 1..Len(callOut) :
    /\ AllocWithinRounding(callOut[k], callOut[1])
    /\ IF ExactTotal(callArgs)[1] = Zero THEN callOut[k] = callArgs
       ELSE RescaledWithinRounding(callOut[k], callArgs)

\* the weights 60, 30, 10 went through the page, simulateMonteCarlo and
\* simulateDeterministic: the page's 0.6 is the binary64 number 0.2 * 2^-53
\* below 3/5 (5 times it is 3 - 2^-53), the second normalization raised the
\* weights by 2^-53, 2^-54 and 2^-56, and the third gave back the first two
\* and lowered the cash weight to 2^-56 below the page's
C26_Witness ==
  /\ callPc = "simulateDeterministic"
  /\ callArgs = Triple(fromInt(60), fromInt(30), fromInt(10))
  /\ Len(callOut) = 3
  /\ ExactEqual(ExactSum(ExactProduct(callOut[1].public, <<R(5), 0>>), <<One, -53>>),
                <<R(3), 0>>)
  /\ ExactEqual(callOut[2].public, ExactSum(callOut[1].public, <<One, -53>>))
  /\ ExactEqual(callOut[2].private, ExactSum(callOut[1].private, <<One, -54>>))
  /\ ExactEqual(callOut[2].cash, ExactSum(callOut[1].cash, <<One, -56>>))
  /\ callOut[3].public = callOut[1].public
  /\ callOut[3].private = callOut[1].private
  /\ ExactEqual(callOut[1].cash, ExactSum(callOut[3].cash, <<One, -56>>))

====
